---------------------------- MODULE Spec2Model ----------------------------
(***************************************************************************)
(* Persistence and synchronisation layer of the atproto-oauth crate:       *)
(*   - the key/value tables auth_session and auth_state (src/src/db.rs),   *)
(*   - the local blog_posts table (src/examples/schema.rs),                *)
(*   - the write handlers and their best-effort mirror to the PDS          *)
(*     (src/examples/basic_usage.rs).                                      *)
(* Every closure handed to pool.conn runs its statements one by one in     *)
(* autocommit mode on one connection of the pool; closures of different    *)
(* requests run on different connections, so their statements interleave.  *)
(***************************************************************************)
EXTENDS Integers, Sequences, FiniteSets, TLC

VARIABLES
    kv,          \* [table -> set of rows [key, val]]: auth_session, auth_state
    kcall,       \* per caller: the key/value call it issued, or NoCall
    kpc,         \* per caller: "idle", "counted" (after SELECT COUNT), "done"
    kcount,      \* per caller: the count its SELECT COUNT(*) returned
    kres,        \* per caller: "none", "ok", "err"
    blog_posts,  \* set of rows of the blog_posts table
    scall,       \* per caller: the BlogPostFromDb call it issued, or NoCall
    spc,         \* per caller: "idle", "counted", "done"
    scount,      \* per caller: the count its SELECT COUNT(*) returned
    sres,        \* per caller: "none", "ok", "err"
    clock,       \* chrono::Utc::now(), in ticks
    h,           \* per request: the frame of the handler serving it
    served       \* number of requests accepted so far

kvVars == <<kv, kcall, kpc, kcount, kres>>

storeVars == <<scall, spc, scount, sres>>

handlerVars == <<clock, h, served>>

vars == <<kv, kcall, kpc, kcount, kres, blog_posts, scall, spc, scount, sres, clock, h, served>>

-----------------------------------------------------------------------------
(* Bounds *)

\* number of concurrent callers of the key/value tables
NumCallers == 3

Callers == 1..NumCallers

\* number of requests served concurrently
NumRequests == 2

Requests == 1..NumRequests

\* last tick of the clock
MaxClock == 2

\* number of requests accepted in one behaviour
MaxServed == 3

\* most setter calls made on one OAuthClientBuilder
MaxSetterCalls == 3

-----------------------------------------------------------------------------
(* The two key/value tables of create_oauth_tables *)

Tables == {"auth_session", "auth_state"}

Keys == {"did:plc:alice", "did:plc:bob"}

NoCall == [op |-> "none"]

\* rows of table T whose PRIMARY KEY column equals k
RowsOf(T, k) == {r \in T : r.key = k}

\* SELECT COUNT(*) FROM t WHERE key = ?1
CountRows(T, k) == Cardinality(RowsOf(T, k))

\* faulty variant of UpdateRows: the UPDATE leaves the stored payload
UpdateRowsKeep(T, k, v) == T

\* UPDATE t SET val = ?2 WHERE key = ?1 : every matching row, none if absent
UpdateRows(T, k, v) == {IF r.key = k THEN [key |-> k, val |-> v] ELSE r : r \in T}

\* INSERT INTO t (key, val) VALUES (?1, ?2): key is the PRIMARY KEY, so the
\* statement fails (and changes nothing) when a row with that key exists
InsertOk(T, k) == RowsOf(T, k) = {}

InsertRow(T, k, v) == IF InsertOk(T, k) THEN T \cup {[key |-> k, val |-> v]} ELSE T

\* faulty variant of DeleteRows: the DELETE has no WHERE clause
DeleteRowsAll(T, k) == {}

\* DELETE FROM t WHERE key = ?1
DeleteRows(T, k) == {r \in T : r.key # k}

-----------------------------------------------------------------------------
(* Strings, as the handlers use them *)

\* Option<T>: None is the empty sequence, Some(v) the one-element sequence
None == <<>>

Some(v) == <<v>>

\* Option::unwrap_or_default for Option<String>
UnwrapOrDefault(o) == IF o = None THEN "" ELSE o[1]

\* str::starts_with
StartsWith(s, p) == Len(s) >= Len(p) /\ SubSeq(s, 1, Len(p)) = p

RECURSIVE ContainsFrom(_, _, _)
ContainsFrom(s, sub, i) ==
    IF i + Len(sub) - 1 > Len(s) THEN FALSE
    ELSE IF SubSeq(s, i, i + Len(sub) - 1) = sub THEN TRUE
    ELSE ContainsFrom(s, sub, i + 1)

\* str::contains
Contains(s, sub) == ContainsFrom(s, sub, 1)

RECURSIVE SplitFrom(_, _, _, _)
SplitFrom(s, sep, i, start) ==
    IF i > Len(s) THEN <<SubSeq(s, start, Len(s))>>
    ELSE IF SubSeq(s, i, i) = sep
         THEN <<SubSeq(s, start, i - 1)>> \o SplitFrom(s, sep, i + 1, i + 1)
         ELSE SplitFrom(s, sep, i + 1, start)

\* str::split(sep).collect() for a one-character separator
Split(s, sep) == SplitFrom(s, sep, 1, 1)

RECURSIVE Join(_, _)
Join(ss, sep) ==
    IF ss = <<>> THEN ""
    ELSE IF Len(ss) = 1 THEN ss[1]
    ELSE ss[1] \o sep \o Join(Tail(ss), sep)

\* serde_json::to_string(&Vec<String>), for tags free of quotes and backslashes
TagsToJson(tags) == "[" \o Join([i \in 1..Len(tags) |-> "\"" \o tags[i] \o "\""], ",") \o "]"

\* faulty variant of TagsFromJson: the elements in reverse order
TagsFromJsonReversed(s) ==
    LET inner == SubSeq(s, 2, Len(s) - 1)
        items == Split(inner, ",")
    IN IF inner = "" THEN <<>>
       ELSE [i \in 1..Len(items) |->
                SubSeq(items[Len(items) + 1 - i], 2, Len(items[Len(items) + 1 - i]) - 1)]

\* serde_json::from_str::<Vec<String>> of a string TagsToJson wrote
TagsFromJson(s) ==
    LET inner == SubSeq(s, 2, Len(s) - 1)
        items == Split(inner, ",")
    IN IF inner = "" THEN <<>>
       ELSE [i \in 1..Len(items) |-> SubSeq(items[i], 2, Len(items[i]) - 1)]

-----------------------------------------------------------------------------
(* The blog_posts table and BlogPostFromDb *)

\* BlogPostFromDb::from_codegen_record_data; now is chrono::Utc::now()
FromCodegenRecordData(uri, author_did, data, now) ==
    [uri |-> uri,
     author_did |-> author_did,
     title |-> data.title,
     content |-> data.content,
     summary |-> data.summary,
     tags |-> TagsToJson(IF data.tags = None THEN <<>> ELSE data.tags[1]),
     published |-> IF data.published = None THEN FALSE ELSE data.published[1],
     created_at |-> data.created_at,
     updated_at |-> IF data.updated_at = None THEN now ELSE data.updated_at[1],
     indexed_at |-> now]

\* BlogPostFromDb::to_codegen_record_data
ToCodegenRecordData(post) ==
    LET tags == TagsFromJson(post.tags)
    IN [title |-> post.title,
        content |-> post.content,
        summary |-> post.summary,
        tags |-> IF tags = <<>> THEN None ELSE Some(tags),
        published |-> Some(post.published),
        created_at |-> post.created_at,
        updated_at |-> Some(post.updated_at)]

\* faulty variant of InsertParams: tags is not bound and takes its DEFAULT
InsertParamsNoTags(post) ==
    [uri |-> post.uri,
     authorDid |-> post.author_did,
     title |-> post.title,
     content |-> post.content,
     summary |-> UnwrapOrDefault(post.summary),
     tags |-> "[]",
     published |-> IF post.published THEN 1 ELSE 0,
     createdAt |-> post.created_at,
     updatedAt |-> post.updated_at,
     indexedAt |-> post.indexed_at]

\* the ten values BlogPostFromDb::save and the INSERT branch bind, as the
\* columns store them (published and the timestamps have numeric affinity)
InsertParams(post) ==
    [uri |-> post.uri,
     authorDid |-> post.author_did,
     title |-> post.title,
     content |-> post.content,
     summary |-> UnwrapOrDefault(post.summary),
     tags |-> post.tags,
     published |-> IF post.published THEN 1 ELSE 0,
     createdAt |-> post.created_at,
     updatedAt |-> post.updated_at,
     indexedAt |-> post.indexed_at]

\* BlogPostFromDb::map_from_row
MapFromRow(row) ==
    [uri |-> row.uri,
     author_did |-> row.authorDid,
     title |-> row.title,
     content |-> row.content,
     summary |-> Some(row.summary),
     tags |-> row.tags,
     published |-> row.published = 1,
     created_at |-> row.createdAt,
     updated_at |-> row.updatedAt,
     indexed_at |-> row.indexedAt]

PostRowsOf(T, uri) == {r \in T : r.uri = uri}

\* SELECT COUNT(*) FROM blog_posts WHERE uri = ?1
PostCount(T, uri) == Cardinality(PostRowsOf(T, uri))

\* faulty variant of PostInsertOk: uri is no key of the table
PostInsertNoKey(T, uri) == TRUE

\* uri TEXT PRIMARY KEY: an INSERT of an existing uri fails
PostInsertOk(T, uri) == PostRowsOf(T, uri) = {}

\* INSERT INTO blog_posts (...) VALUES (?1 .. ?10)
PostInsert(T, post) == IF PostInsertOk(T, post.uri) THEN T \cup {InsertParams(post)} ELSE T

\* faulty variant of UpdatedRow: the UPDATE rewrites all ten columns
UpdatedRowFull(r, post) == InsertParams(post)

\* faulty variant of UpdatedRow: the UPDATE stamps indexedAt itself
UpdatedRowTouch(r, post) ==
    [r EXCEPT !.title = post.title,
              !.content = post.content,
              !.summary = UnwrapOrDefault(post.summary),
              !.tags = post.tags,
              !.published = IF post.published THEN 1 ELSE 0,
              !.updatedAt = post.updated_at,
              !.indexedAt = r.indexedAt + 1]

\* UPDATE blog_posts SET title, content, summary, tags, published, updatedAt,
\* indexedAt WHERE uri = ?1
UpdatedRow(r, post) ==
    [r EXCEPT !.title = post.title,
              !.content = post.content,
              !.summary = UnwrapOrDefault(post.summary),
              !.tags = post.tags,
              !.published = IF post.published THEN 1 ELSE 0,
              !.updatedAt = post.updated_at,
              !.indexedAt = post.indexed_at]

PostUpdate(T, post) == {IF r.uri = post.uri THEN UpdatedRow(r, post) ELSE r : r \in T}

\* DELETE FROM blog_posts WHERE uri = ?1
PostDelete(T, uri) == {r \in T : r.uri # uri}

-----------------------------------------------------------------------------
(* Key/value calls.  Caller c stores the payload c, so that a row tells    *)
(* whose write it holds.                                                   *)

KvIdle ==
    /\ kv = [t \in Tables |-> {}]
    /\ kcall = [c \in Callers |-> NoCall]
    /\ kpc = [c \in Callers |-> "idle"]
    /\ kcount = [c \in Callers |-> 0]
    /\ kres = [c \in Callers |-> "none"]

StoreIdle ==
    /\ blog_posts = {}
    /\ scall = [c \in Callers |-> NoCall]
    /\ spc = [c \in Callers |-> "idle"]
    /\ scount = [c \in Callers |-> 0]
    /\ sres = [c \in Callers |-> "none"]

\* the frame of a request slot that serves no request
IdleFrame ==
    [kind |-> "none", pc |-> "idle", did |-> "", uri |-> "", req |-> <<>>,
     data |-> <<>>, post |-> <<>>,
     count |-> 0, saved |-> "none", restored |-> "none", res |-> "none",
     mirror |-> <<>>, calls |-> <<>>]

HandlersIdle ==
    /\ clock = 1
    /\ h = [r \in Requests |-> IdleFrame]
    /\ served = 0

KvInit == KvIdle /\ StoreIdle /\ HandlersIdle

\* Did::new of atrium_api: did:<method>:<id>, method and id not empty
DidNew(x) ==
    LET parts == Split(x, ":")
    IN /\ Len(parts) >= 3
       /\ parts[1] = "did"
       /\ parts[2] # ""
       /\ parts[Len(parts)] # ""

\* key strings a lookup may be called with: the stored keys and one that is
\* no DID
LookupKeys == Keys \cup {"state-1"}

\* query_row(..).map(Some).or_else(QueryReturnedNoRows => Ok(None)) on
\* SELECT * FROM t WHERE key = ?1
QueryRow(T, k) == IF RowsOf(T, k) = {} THEN None ELSE Some((CHOOSE r \in RowsOf(T, k) : TRUE).val)

\* the outcome of AuthSession::get_by_did (Did::new(did).unwrap() first) and
\* of AuthState::get_by_key
GetOutcome(t, T, k) ==
    IF t = "auth_session" /\ ~DidNew(k) THEN [kind |-> "panic", row |-> None]
    ELSE [kind |-> "ok", row |-> QueryRow(T, k)]

\* save_or_update, first statement: SELECT COUNT(*) ... WHERE key = ?1
SaveOrUpdateCount(c, t, k) ==
    /\ kpc[c] = "idle"
    /\ kcall' = [kcall EXCEPT ![c] = [op |-> "save_or_update", table |-> t, key |-> k, val |-> c]]
    /\ kcount' = [kcount EXCEPT ![c] = CountRows(kv[t], k)]
    /\ kpc' = [kpc EXCEPT ![c] = "counted"]
    /\ UNCHANGED <<kv, kres, blog_posts, storeVars, handlerVars>>

\* save_or_update, second statement: match count > 0 { true => UPDATE, false => INSERT }
SaveOrUpdateWrite(c) ==
    /\ kpc[c] = "counted"
    /\ LET t == kcall[c].table
           k == kcall[c].key
           v == kcall[c].val
       IN IF kcount[c] > 0
          THEN /\ kv' = [kv EXCEPT ![t] = UpdateRows(kv[t], k, v)]
               /\ kres' = [kres EXCEPT ![c] = "ok"]
          ELSE /\ kv' = [kv EXCEPT ![t] = InsertRow(kv[t], k, v)]
               /\ kres' = [kres EXCEPT ![c] = IF InsertOk(kv[t], k) THEN "ok" ELSE "err"]
    /\ kpc' = [kpc EXCEPT ![c] = "done"]
    /\ UNCHANGED <<kcall, kcount, blog_posts, storeVars, handlerVars>>

\* delete_by_did / delete_by_key: one DELETE statement
DeleteByKey(c, t, k) ==
    /\ kpc[c] = "idle"
    /\ kcall' = [kcall EXCEPT ![c] = [op |-> "delete", table |-> t, key |-> k, val |-> c]]
    /\ kv' = [kv EXCEPT ![t] = DeleteRows(kv[t], k)]
    /\ kres' = [kres EXCEPT ![c] = "ok"]
    /\ kpc' = [kpc EXCEPT ![c] = "done"]
    /\ UNCHANGED <<kcount, blog_posts, storeVars, handlerVars>>

\* values handed to AuthSession::new / AuthState::new: V: Serialize, whose
\* serialization succeeds or fails (a map with keys that are no strings)
Payloads == {[serializable |-> TRUE, text |-> "s"], [serializable |-> FALSE, text |-> "s"]}

\* serde_json::to_string(&session)
SerdeToString(v) == IF v.serializable THEN Some("\"" \o v.text \o "\"") ELSE None

\* AuthSession::new / AuthState::new: serde_json::to_string(..).unwrap()
NewOutcome(k, v) ==
    IF SerdeToString(v) = None THEN [kind |-> "panic", row |-> None]
    ELSE [kind |-> "ok", row |-> Some([key |-> k, val |-> SerdeToString(v)[1]])]

\* AuthSession::new / AuthState::new called by a caller
NewEntry(c, t, k, v) ==
    /\ kpc[c] = "idle"
    /\ kcall' = [kcall EXCEPT ![c] = [op |-> "new", table |-> t, key |-> k, val |-> v]]
    /\ kres' = [kres EXCEPT ![c] = NewOutcome(k, v)]
    /\ kpc' = [kpc EXCEPT ![c] = "done"]
    /\ UNCHANGED <<kv, kcount, blog_posts, storeVars, handlerVars>>

\* get_by_did / get_by_key: one SELECT statement
GetByKey(c, t, k) ==
    /\ kpc[c] = "idle"
    /\ kcall' = [kcall EXCEPT ![c] = [op |-> "get", table |-> t, key |-> k, val |-> c]]
    /\ kres' = [kres EXCEPT ![c] = GetOutcome(t, kv[t], k)]
    /\ kpc' = [kpc EXCEPT ![c] = "done"]
    /\ UNCHANGED <<kv, kcount, blog_posts, storeVars, handlerVars>>

KvNext ==
    \E c \in Callers :
        \/ \E t \in Tables, k \in LookupKeys : GetByKey(c, t, k)
        \/ \E t \in Tables, v \in Payloads : NewEntry(c, t, "did:plc:alice", v)
        \/ \E t \in Tables, k \in Keys : SaveOrUpdateCount(c, t, k)
        \/ SaveOrUpdateWrite(c)
        \/ \E t \in Tables, k \in Keys : DeleteByKey(c, t, k)

SpecKV == KvInit /\ [][KvNext]_vars

-----------------------------------------------------------------------------
(* Claims on the key/value tables *)

\* the callers that issued a call
KvIssued == {c \in Callers : kcall[c].op # "none"}

\* all bijections 1..|S| -> S : the serial orders of the callers in S
Orders(S) ==
    {o \in [1..Cardinality(S) -> S] : \A i, j \in 1..Cardinality(S) : i # j => o[i] # o[j]}

\* reference semantics of the contract's upsert: insert if absent, overwrite if present
AtomicUpsert(T, k, v) ==
    IF RowsOf(T, k) = {} THEN T \cup {[key |-> k, val |-> v]} ELSE UpdateRows(T, k, v)

RECURSIVE SerialUpserts(_, _)
SerialUpserts(order, T) ==
    IF order = <<>> THEN T
    ELSE SerialUpserts(Tail(order), AtomicUpsert(T, kcall[Head(order)].key, kcall[Head(order)].val))

\* every issued call is a finished save_or_update, all on table t and key k
KvOnlyUpsertsOn(t, k) ==
    /\ Cardinality(KvIssued) >= 2
    /\ \A c \in KvIssued :
          /\ kpc[c] = "done"
          /\ kcall[c].op = "save_or_update"
          /\ kcall[c].table = t
          /\ kcall[c].key = k

\* C1: N concurrent save_or_update calls on one key leave the table as some
\* serial order of the calls would: one row for the key holding the payload
\* of the last call of that order, every call having succeeded (no write
\* lost), no duplicate row.
C1_KvUpsertsSerializable ==
    \A t \in Tables, k \in Keys :
        KvOnlyUpsertsOn(t, k) =>
            /\ \A c \in KvIssued : kres[c] = "ok"
            /\ \E o \in Orders(KvIssued) : kv[t] = SerialUpserts(o, {})

\* the racing calls of C1 have all finished
C1_Witness ==
    \E t \in Tables, k \in Keys :
        /\ KvOnlyUpsertsOn(t, k)
        /\ \E c \in KvIssued : kres[c] = "err"

\* C2: the key/value upsert is atomic per key: while a caller is between its
\* existence check and its INSERT/UPDATE, no step changes the rows of its key.
C2_KvUpsertAtomic ==
    [][\A c \in Callers :
          (kpc[c] = "counted" /\ kpc'[c] = "counted") =>
              RowsOf(kv'[kcall[c].table], kcall[c].key) = RowsOf(kv[kcall[c].table], kcall[c].key)]_vars

\* a caller whose existence check no longer matches the table it is about to write
C2_Witness ==
    \E c \in Callers :
        /\ kpc[c] = "counted"
        /\ kcount[c] # CountRows(kv[kcall[c].table], kcall[c].key)

-----------------------------------------------------------------------------
(* Direct calls of BlogPostFromDb on the blog_posts table.  Caller c hands  *)
(* in a record with title "title-c" and created_at c, so that a row tells   *)
(* whose values it holds.                                                  *)

Collection == "com.crabdance.nandi.post"

Authors == {"did:plc:alice", "did:plc:bob"}

StoreUris == {"at://did:plc:alice/" \o Collection \o "/post-1",
              "at://did:plc:bob/" \o Collection \o "/post-2"}

\* the BlogPostFromDb that caller c passes
CallerPost(c, uri, author) ==
    [uri |-> uri,
     author_did |-> author,
     title |-> "title-" \o ToString(c),
     content |-> "body",
     summary |-> None,
     tags |-> "[]",
     published |-> FALSE,
     created_at |-> c,
     updated_at |-> c,
     indexed_at |-> c]

StoreInit == KvIdle /\ StoreIdle /\ HandlersIdle

\* BlogPostFromDb::save_or_update, first statement: SELECT COUNT(*)
PostSaveOrUpdateCount(c, uri, author) ==
    /\ spc[c] = "idle"
    /\ scall' = [scall EXCEPT ![c] = [op |-> "save_or_update", post |-> CallerPost(c, uri, author)]]
    /\ scount' = [scount EXCEPT ![c] = PostCount(blog_posts, uri)]
    /\ spc' = [spc EXCEPT ![c] = "counted"]
    /\ UNCHANGED <<blog_posts, sres, kvVars, handlerVars>>

\* BlogPostFromDb::save_or_update, second statement: UPDATE or INSERT
PostSaveOrUpdateWrite(c) ==
    /\ spc[c] = "counted"
    /\ LET post == scall[c].post
       IN IF scount[c] > 0
          THEN /\ blog_posts' = PostUpdate(blog_posts, post)
               /\ sres' = [sres EXCEPT ![c] = "ok"]
          ELSE /\ blog_posts' = PostInsert(blog_posts, post)
               /\ sres' = [sres EXCEPT ![c] = IF PostInsertOk(blog_posts, post.uri) THEN "ok" ELSE "err"]
    /\ spc' = [spc EXCEPT ![c] = "done"]
    /\ UNCHANGED <<scall, scount, kvVars, handlerVars>>

\* the caller calls save_or_update once more with the same record: first
\* statement of the second call
PostSaveOrUpdateRepeat(c) ==
    /\ spc[c] = "done"
    /\ scall[c].op = "save_or_update"
    /\ scall' = [scall EXCEPT ![c].op = "save_or_update_again"]
    /\ scount' = [scount EXCEPT ![c] = PostCount(blog_posts, scall[c].post.uri)]
    /\ spc' = [spc EXCEPT ![c] = "counted"]
    /\ UNCHANGED <<blog_posts, sres, kvVars, handlerVars>>

\* BlogPostFromDb::save: one INSERT
PostSave(c, uri, author) ==
    /\ spc[c] = "idle"
    /\ scall' = [scall EXCEPT ![c] = [op |-> "save", post |-> CallerPost(c, uri, author)]]
    /\ blog_posts' = PostInsert(blog_posts, CallerPost(c, uri, author))
    /\ sres' = [sres EXCEPT ![c] = IF PostInsertOk(blog_posts, uri) THEN "ok" ELSE "err"]
    /\ spc' = [spc EXCEPT ![c] = "done"]
    /\ UNCHANGED <<scount, kvVars, handlerVars>>

\* BlogPostFromDb::delete_by_uri: one DELETE
PostDeleteByUri(c, uri) ==
    /\ spc[c] = "idle"
    /\ scall' = [scall EXCEPT ![c] = [op |-> "delete", post |-> CallerPost(c, uri, "")]]
    /\ blog_posts' = PostDelete(blog_posts, uri)
    /\ sres' = [sres EXCEPT ![c] = "ok"]
    /\ spc' = [spc EXCEPT ![c] = "done"]
    /\ UNCHANGED <<scount, kvVars, handlerVars>>

StoreNext ==
    \/ \E c \in Callers :
          \/ \E uri \in StoreUris, a \in Authors : PostSaveOrUpdateCount(c, uri, a)
          \/ PostSaveOrUpdateWrite(c)
          \/ \E uri \in StoreUris, a \in Authors : PostSave(c, uri, a)
          \/ \E uri \in StoreUris : PostDeleteByUri(c, uri)
    \/ PostSaveOrUpdateRepeat(1)

SpecStore == StoreInit /\ [][StoreNext]_vars

\* callers of both layers on one database: each caller makes one call, to
\* the key/value tables or to blog_posts
DbNext ==
    \E c \in Callers :
        \/ spc[c] = "idle" /\ \E t \in Tables, k \in Keys : SaveOrUpdateCount(c, t, k)
        \/ SaveOrUpdateWrite(c)
        \/ spc[c] = "idle" /\ \E t \in Tables, k \in Keys : DeleteByKey(c, t, k)
        \/ kpc[c] = "idle" /\ \E uri \in StoreUris, a \in Authors : PostSave(c, uri, a)
        \/ kpc[c] = "idle" /\ \E uri \in StoreUris : PostDeleteByUri(c, uri)

SpecDb == StoreInit /\ [][DbNext]_vars

-----------------------------------------------------------------------------
(* Claims on concurrent upserts of blog_posts *)

StoreIssued == {c \in Callers : scall[c].op # "none"}

\* reference semantics of the contract's upsert of a content record
AtomicPostUpsert(T, post) ==
    IF PostRowsOf(T, post.uri) = {} THEN T \cup {InsertParams(post)} ELSE PostUpdate(T, post)

RECURSIVE SerialPostUpserts(_, _)
SerialPostUpserts(order, T) ==
    IF order = <<>> THEN T
    ELSE SerialPostUpserts(Tail(order), AtomicPostUpsert(T, scall[Head(order)].post))

\* every issued call is a finished save_or_update, all on one uri
StoreOnlyUpsertsOn(uri) ==
    /\ Cardinality(StoreIssued) >= 2
    /\ \A c \in StoreIssued :
          /\ spc[c] = "done"
          /\ scall[c].op = "save_or_update"
          /\ scall[c].post.uri = uri

\* C3: concurrent BlogPostFromDb::save_or_update calls on one uri leave the
\* single row that some serial order of them leaves (full insert by the
\* first, update of the mutable fields by each later one, author_id and
\* created_at included), and no upsert fails or is lost.
C3_PostUpsertsSerializable ==
    \A uri \in StoreUris :
        StoreOnlyUpsertsOn(uri) =>
            /\ \A c \in StoreIssued : sres[c] = "ok"
            /\ \E o \in Orders(StoreIssued) : blog_posts = SerialPostUpserts(o, {})

\* racing upserts have finished and the row matches no serial order
C3_Witness ==
    \E uri \in StoreUris :
        /\ StoreOnlyUpsertsOn(uri)
        /\ \A o \in Orders(StoreIssued) : blog_posts # SerialPostUpserts(o, {})

-----------------------------------------------------------------------------
(* The request handlers of basic_usage.rs: local phase *)

\* load_latest_posts: ... ORDER BY indexedAt DESC LIMIT 10
LatestLimit == 10

\* values of the Authorization header / session_did cookie; "anon" stands
\* for a request that carries neither
Identities == {"did:plc:alice", "did:x", "anon"}

\* extract_session: Ok exactly when the header value starts with "did:"
ExtractSession(hdr) == StartsWith(hdr, "did:")

\* format!("post-{}", chrono::Utc::now().timestamp_millis())
NewRkey(now) == "post-" \o ToString(now)

\* format!("at://{}/com.crabdance.nandi.post/{}", session.did, rkey)
BuildUri(did, rkey) == "at://" \o did \o "/" \o Collection \o "/" \o rkey

\* a uri no create request produces (the clock starts at 1)
MissingUri == BuildUri("did:plc:alice", NewRkey(0))

\* BlogPostRecordData built by create_blog_post from the JSON request
ApiCreateData(now) ==
    [title |-> "T1", content |-> "C1", summary |-> None, tags |-> None,
     published |-> None, created_at |-> now, updated_at |-> Some(now)]

\* BlogPostRecordData built by blog_create_form_handler_post from the form
FormCreateData(now) ==
    [title |-> "T1", content |-> "C1", summary |-> None, tags |-> None,
     published |-> Some(FALSE), created_at |-> now, updated_at |-> Some(now)]

\* update_blog_post: "Apply updates from request" and "Update timestamps"
ApplyRequest(data, title, content, now) ==
    [data EXCEPT !.title = IF title = None THEN @ ELSE title[1],
                 !.content = IF content = None THEN @ ELSE content[1],
                 !.updated_at = Some(now)]

\* blog_edit_form_handler_post: "Apply updates from form", with the summary
\* and tags inputs left empty and the published box unchecked
ApplyForm(data, title, content, now) ==
    [data EXCEPT !.title = title,
                 !.content = content,
                 !.summary = None,
                 !.tags = None,
                 !.published = Some(FALSE),
                 !.updated_at = Some(now)]

\* rows that load_latest_posts may / must return: the LIMIT cuts the rows
\* after the newest ten by indexedAt, ties in no specified order
CanLoad(T, row) == Cardinality({q \in T : q.indexedAt > row.indexedAt}) < LatestLimit

MustLoad(T, row) == Cardinality({q \in T \ {row} : q.indexedAt >= row.indexedAt}) < LatestLimit

\* the possible values of load_latest_posts().into_iter().find(|p| p.uri == uri)
FindLatest(T, uri) ==
    {Some(MapFromRow(row)) : row \in {q \in PostRowsOf(T, uri) : CanLoad(T, q)}}
    \cup (IF \A q \in PostRowsOf(T, uri) : MustLoad(T, q) /\ PostRowsOf(T, uri) # {}
          THEN {} ELSE {None})

\* the handler returns res
Done(f, res) == [f EXCEPT !.pc = "done", !.res = res]

\* faulty variant of AfterSave: the error of the save is dropped and the
\* handler goes on to the mirror
AfterSaveIgnoreError(f, ok, next) ==
    [f EXCEPT !.saved = IF ok THEN "ok" ELSE "err", !.pc = next]

\* `.await.map_err(..)?` on the result of save / save_or_update: an error
\* ends the handler with a database error, success continues at next
AfterSave(f, ok, next) ==
    IF ok THEN [f EXCEPT !.saved = "ok", !.pc = next]
    ELSE Done([f EXCEPT !.saved = "err"], "database_error")

\* the frame of a request of the given kind that just arrived
Arrived(kind, hdr, uri) == [IdleFrame EXCEPT !.kind = kind, !.did = hdr, !.uri = uri]

\* a request arrives at an idle slot
Accept == served < MaxServed /\ served' = served + 1

HandlersInit == KvIdle /\ StoreIdle /\ HandlersIdle

\* create_blog_post: the whole handler (it makes no remote call)
CreateBlogPost(r, hdr) ==
    /\ h[r].pc = "idle"
    /\ Accept
    /\ \E now \in clock..MaxClock :
        LET uri == BuildUri(hdr, NewRkey(now))
            post == FromCodegenRecordData(uri, hdr, ApiCreateData(now), now)
            f == [Arrived("create_api", hdr, uri) EXCEPT !.post = Some(post)]
        IN /\ clock' = now
           /\ IF ~ExtractSession(hdr)
              THEN /\ h' = [h EXCEPT ![r] = Done(Arrived("create_api", hdr, ""), "unauthorized")]
                   /\ UNCHANGED blog_posts
              ELSE /\ blog_posts' = PostInsert(blog_posts, post)
                   /\ h' = [h EXCEPT ![r] =
                              LET g == AfterSave(f, PostInsertOk(blog_posts, uri), "saved")
                              IN IF g.pc = "saved" THEN Done(g, "ok") ELSE g]
    /\ UNCHANGED <<kvVars, storeVars>>

\* blog_create_form_handler_post up to blog_post.save(..).await?
BlogCreateFormSave(r, hdr) ==
    /\ h[r].pc = "idle"
    /\ Accept
    /\ \E now \in clock..MaxClock :
        LET rkey == NewRkey(now)
            uri == BuildUri(hdr, rkey)
            data == FormCreateData(now)
            post == FromCodegenRecordData(uri, hdr, data, now)
            f == [Arrived("create_form", hdr, uri) EXCEPT
                     !.data = Some(data), !.post = Some(post),
                     !.mirror = Some([repo |-> hdr, collection |-> Collection, rkey |-> rkey])]
        IN /\ clock' = now
           /\ IF ~ExtractSession(hdr)
              THEN /\ h' = [h EXCEPT ![r] = Done(Arrived("create_form", hdr, ""), "auth_redirect")]
                   /\ UNCHANGED blog_posts
              ELSE /\ blog_posts' = PostInsert(blog_posts, post)
                   /\ h' = [h EXCEPT ![r] =
                              AfterSave(f, PostInsertOk(blog_posts, uri), "saved_create")]
    /\ UNCHANGED <<kvVars, storeVars>>

\* update_blog_post up to from_codegen_record_data (authenticate, load, find,
\* authorize, merge)
UpdateBlogPostLoad(r, hdr, uri, title, content) ==
    /\ h[r].pc = "idle"
    /\ Accept
    /\ \E now \in clock..MaxClock, found \in FindLatest(blog_posts, uri) :
        LET f == [Arrived("update_api", hdr, uri) EXCEPT
                     !.req = Some([title |-> title, content |-> content])]
        IN /\ clock' = now
           /\ h' = [h EXCEPT ![r] =
                IF ~ExtractSession(hdr) THEN Done(f, "unauthorized")
                ELSE IF found = None THEN Done(f, "not_found")
                ELSE IF found[1].author_did # hdr THEN Done(f, "forbidden")
                ELSE LET data == ApplyRequest(ToCodegenRecordData(found[1]), title, content, now)
                     IN [f EXCEPT !.pc = "loaded",
                                  !.data = Some(data),
                                  !.post = Some(FromCodegenRecordData(uri, hdr, data, now))]]
    /\ UNCHANGED <<kvVars, blog_posts, storeVars>>

\* blog_edit_form_handler_post up to from_codegen_record_data (no
\* authentication; load, find, overwrite from the form)
BlogEditFormLoad(r, hdr, uri, title, content) ==
    /\ h[r].pc = "idle"
    /\ Accept
    /\ \E now \in clock..MaxClock, found \in FindLatest(blog_posts, uri) :
        LET f == [Arrived("update_form", hdr, uri) EXCEPT
                     !.req = Some([title |-> Some(title), content |-> Some(content)])]
        IN /\ clock' = now
           /\ h' = [h EXCEPT ![r] =
                IF found = None THEN Done(f, "not_found")
                ELSE LET data == ApplyForm(ToCodegenRecordData(found[1]), title, content, now)
                     IN [f EXCEPT !.pc = "loaded",
                                  !.data = Some(data),
                                  !.post = Some(FromCodegenRecordData(found[1].uri, found[1].author_did, data, now))]]
    /\ UNCHANGED <<kvVars, blog_posts, storeVars>>

\* save_or_update called by an update handler, first statement
HandlerSaveOrUpdateCount(r) ==
    /\ h[r].pc = "loaded"
    /\ h' = [h EXCEPT ![r].count = PostCount(blog_posts, h[r].post[1].uri), ![r].pc = "counted"]
    /\ UNCHANGED <<kvVars, blog_posts, storeVars, clock, served>>

\* save_or_update called by an update handler, second statement, and the
\* handler's map_err(..)? on its result
HandlerSaveOrUpdateWrite(r) ==
    /\ h[r].pc = "counted"
    /\ LET post == h[r].post[1]
       IN IF h[r].count > 0
          THEN /\ blog_posts' = PostUpdate(blog_posts, post)
               /\ h' = [h EXCEPT ![r] = AfterSave(h[r], TRUE, "saved_update")]
          ELSE /\ blog_posts' = PostInsert(blog_posts, post)
               /\ h' = [h EXCEPT ![r] =
                          AfterSave(h[r], PostInsertOk(blog_posts, post.uri), "saved_update")]
    /\ UNCHANGED <<kvVars, storeVars, clock, served>>

\* delete_blog_post up to the ownership check
DeleteBlogPostLoad(r, hdr, uri) ==
    /\ h[r].pc = "idle"
    /\ Accept
    /\ \E found \in FindLatest(blog_posts, uri) :
        LET f == Arrived("delete_api", hdr, uri)
        IN h' = [h EXCEPT ![r] =
                IF ~ExtractSession(hdr) THEN Done(f, "unauthorized")
                ELSE IF found = None THEN Done(f, "not_found")
                ELSE IF found[1].author_did # hdr THEN Done(f, "forbidden")
                ELSE [f EXCEPT !.pc = "delete"]]
    /\ UNCHANGED <<kvVars, blog_posts, storeVars, clock>>

\* p.uri.rsplit('/').next()
RkeyOf(uri) == LET parts == Split(uri, "/") IN parts[Len(parts)]

\* the possible values of load_latest_posts().into_iter().find(|p| rkey of
\* p.uri == rkey): the first loaded row, newest indexedAt first, that matches
FindLatestByRkey(T, rkey) ==
    LET match == {q \in T : RkeyOf(q.uri) = rkey}
        first == {q \in match : CanLoad(T, q) /\ \A o \in match : o.indexedAt <= q.indexedAt}
    IN {Some(MapFromRow(q)) : q \in first}
       \cup (IF \E q \in match : MustLoad(T, q) THEN {} ELSE {None})

\* blog_delete_form_handler_post up to delete_by_uri (no authentication)
BlogDeleteFormLoad(r, hdr, rkey) ==
    /\ h[r].pc = "idle"
    /\ Accept
    /\ \E found \in FindLatestByRkey(blog_posts, rkey) :
        h' = [h EXCEPT ![r] =
                IF found = None THEN Done(Arrived("delete_form", hdr, ""), "not_found")
                ELSE [Arrived("delete_form", hdr, found[1].uri) EXCEPT !.pc = "delete"]]
    /\ UNCHANGED <<kvVars, blog_posts, storeVars, clock>>

\* delete_blog_post / blog_delete_form_handler_post: delete_by_uri and the
\* response
DeleteBlogPostExec(r) ==
    /\ h[r].pc = "delete"
    /\ blog_posts' = PostDelete(blog_posts, h[r].uri)
    /\ h' = [h EXCEPT ![r] = Done(h[r], "ok")]
    /\ UNCHANGED <<kvVars, storeVars, clock, served>>

\* the response is sent; the slot serves the next request
Respond(r) ==
    /\ h[r].pc = "done"
    /\ h' = [h EXCEPT ![r] = IdleFrame]
    /\ UNCHANGED <<kvVars, blog_posts, storeVars, clock, served>>

-----------------------------------------------------------------------------
(* The request handlers of basic_usage.rs: the mirror to the PDS *)

\* texts of the errors the PDS answers with
ErrMsgs == {"Lexicon not found", "Could not find record", "timeout"}

RemoteOutcomes == {"ok"} \cup ErrMsgs

\* faulty variant of Classify: the not-found test comes first
ClassifyNotFoundFirst(msg) ==
    IF Contains(msg, "Record not found") \/ Contains(msg, "Could not find record")
    THEN "NotFound"
    ELSE IF Contains(msg, "Lexicon not found") \/ Contains(msg, "schema") THEN "SchemaInvalid"
         ELSE "Other"

\* the if / else if / else on the text of a put_record error
Classify(msg) ==
    IF Contains(msg, "Lexicon not found") \/ Contains(msg, "schema") THEN "SchemaInvalid"
    ELSE IF Contains(msg, "Record not found") \/ Contains(msg, "Could not find record")
         THEN "NotFound"
         ELSE "Other"

\* oauth_client.callback stores the session of the identity: the session
\* store's set is an upsert of auth_session
OAuthCallback(did) ==
    /\ DidNew(did)
    /\ kv' = [kv EXCEPT !["auth_session"] = AtomicUpsert(@, did, "session")]
    /\ UNCHANGED <<kcall, kpc, kcount, kres, blog_posts, storeVars, handlerVars>>

\* oauth_client.restore(&did): fails when auth_session has no row for the
\* identity, and may fail (transport, refresh) when it has one
RestoreOutcomes(did) ==
    IF RowsOf(kv["auth_session"], did) = {} THEN {"fail"} ELSE {"ok", "fail"}

\* serde_json::to_value(&record_data) with "$type" inserted
RecordValue(data, collection) == [type |-> collection, data |-> data]

\* attempt_put(validate_flag, &record_value)
PutInput(f, validate) ==
    [op |-> "put", validate |-> validate, repo |-> f.mirror[1].repo,
     collection |-> f.mirror[1].collection, rkey |-> f.mirror[1].rkey,
     record |-> RecordValue(f.data[1], f.mirror[1].collection)]

\* faulty variant of CreateInput: rkey None, the PDS picks the record key
CreateInputNoRkey(f, validate) ==
    [op |-> "create", validate |-> validate, repo |-> f.mirror[1].repo,
     collection |-> f.mirror[1].collection, rkey |-> "",
     record |-> RecordValue(f.data[1], f.mirror[1].collection)]

\* attempt_create(validate_flag, &record_value)
CreateInput(f, validate) ==
    [op |-> "create", validate |-> validate, repo |-> f.mirror[1].repo,
     collection |-> f.mirror[1].collection, rkey |-> f.mirror[1].rkey,
     record |-> RecordValue(f.data[1], f.mirror[1].collection)]

\* the frame after the remote call with its outcome
Called(f, input, outcome) == [f EXCEPT !.calls = Append(@, [input |-> input, outcome |-> outcome])]

\* faulty variant of BlogCreateFormRestore: a failed restore ends the
\* handler with an error
BlogCreateFormRestoreFatal(r, outcome) ==
    /\ h[r].pc = "saved_create"
    /\ IF ~DidNew(h[r].did)
       THEN h' = [h EXCEPT ![r] = Done(h[r], "invalid_did")]
       ELSE /\ outcome \in RestoreOutcomes(h[r].did)
            /\ h' = [h EXCEPT ![r] =
                       IF outcome = "ok"
                       THEN [h[r] EXCEPT !.restored = "ok", !.pc = "lexicon"]
                       ELSE Done([h[r] EXCEPT !.restored = "fail"], "restore_error")]
    /\ UNCHANGED <<kvVars, blog_posts, storeVars, clock, served>>

\* blog_create_form_handler_post: Did::new(..).map_err(..)? and restore
BlogCreateFormRestore(r, outcome) ==
    /\ h[r].pc = "saved_create"
    /\ IF ~DidNew(h[r].did)
       THEN h' = [h EXCEPT ![r] = Done(h[r], "invalid_did")]
       ELSE /\ outcome \in RestoreOutcomes(h[r].did)
            /\ h' = [h EXCEPT ![r] =
                       IF outcome = "ok"
                       THEN [h[r] EXCEPT !.restored = "ok", !.pc = "lexicon"]
                       ELSE Done([h[r] EXCEPT !.restored = "fail"], "ok")]
    /\ UNCHANGED <<kvVars, blog_posts, storeVars, clock, served>>

\* register_custom_lexicon: reading the lexicon file may fail before the
\* call ("unsent"); the caller logs an error and continues
RegisterCustomLexicon(r, outcome) ==
    /\ h[r].pc = "lexicon"
    /\ LET input == [op |-> "create", validate |-> TRUE, repo |-> h[r].did,
                     collection |-> "com.atproto.lexicon.schema", rkey |-> Collection,
                     record |-> "lexicon"]
       IN h' = [h EXCEPT ![r] =
                  IF outcome = "unsent" THEN [h[r] EXCEPT !.pc = "create1"]
                  ELSE [Called(h[r], input, outcome) EXCEPT !.pc = "create1"]]
    /\ UNCHANGED <<kvVars, blog_posts, storeVars, clock, served>>

\* update_blog_post: derive rkey and collection from the uri, Did::new, restore
UpdateBlogPostRestore(r, outcome) ==
    /\ h[r].pc = "saved_update"
    /\ h[r].kind = "update_api"
    /\ LET parts == Split(h[r].uri, "/")
           rkey == parts[Len(parts)]
       IN IF Len(parts) >= 4 /\ parts[4] = Collection /\ DidNew(h[r].did)
          THEN /\ outcome \in RestoreOutcomes(h[r].did)
               /\ h' = [h EXCEPT ![r] =
                          IF outcome = "ok"
                          THEN [h[r] EXCEPT !.restored = "ok", !.pc = "put1",
                                   !.mirror = Some([repo |-> h[r].did, collection |-> parts[4], rkey |-> rkey])]
                          ELSE Done([h[r] EXCEPT !.restored = "fail"], "ok")]
          ELSE h' = [h EXCEPT ![r] = Done(h[r], "ok")]
    /\ UNCHANGED <<kvVars, blog_posts, storeVars, clock, served>>

\* blog_edit_form_handler_post: Did::new of the author, restore, then derive
\* collection and rkey from the uri
BlogEditFormRestore(r, outcome) ==
    /\ h[r].pc = "saved_update"
    /\ h[r].kind = "update_form"
    /\ LET post == h[r].post[1]
           parts == Split(post.uri, "/")
       IN IF DidNew(post.author_did)
          THEN /\ outcome \in RestoreOutcomes(post.author_did)
               /\ h' = [h EXCEPT ![r] =
                          IF outcome # "ok" THEN Done([h[r] EXCEPT !.restored = "fail"], "ok")
                          ELSE IF Len(parts) >= 5 /\ parts[4] = Collection
                          THEN [h[r] EXCEPT !.restored = "ok", !.pc = "put1",
                                   !.mirror = Some([repo |-> post.author_did, collection |-> parts[4], rkey |-> parts[5]])]
                          ELSE Done([h[r] EXCEPT !.restored = "ok"], "ok")]
          ELSE h' = [h EXCEPT ![r] = Done(h[r], "ok")]
    /\ UNCHANGED <<kvVars, blog_posts, storeVars, clock, served>>

\* faulty variant of PutRecordValidated: a put_record that failed with
\* another error is sent once more
PutRecordValidatedRetry(r, outcome) ==
    /\ h[r].pc = "put1"
    /\ LET f == Called(h[r], PutInput(h[r], TRUE), outcome)
       IN h' = [h EXCEPT ![r] =
                  IF outcome = "ok" THEN Done(f, "ok")
                  ELSE IF Classify(outcome) = "SchemaInvalid" THEN [f EXCEPT !.pc = "put2"]
                  ELSE IF Classify(outcome) = "Other" /\ Len(f.calls) < 2 THEN f
                  ELSE [f EXCEPT !.pc = "create1"]]
    /\ UNCHANGED <<kvVars, blog_posts, storeVars, clock, served>>

\* put_record with validate = true and the match on its result
PutRecordValidated(r, outcome) ==
    /\ h[r].pc = "put1"
    /\ LET f == Called(h[r], PutInput(h[r], TRUE), outcome)
       IN h' = [h EXCEPT ![r] =
                  IF outcome = "ok" THEN Done(f, "ok")
                  ELSE IF Classify(outcome) = "SchemaInvalid" THEN [f EXCEPT !.pc = "put2"]
                  ELSE [f EXCEPT !.pc = "create1"]]
    /\ UNCHANGED <<kvVars, blog_posts, storeVars, clock, served>>

\* the retry put_record with validate = false; did_put stays false on error
PutRecordUnvalidated(r, outcome) ==
    /\ h[r].pc = "put2"
    /\ LET f == Called(h[r], PutInput(h[r], FALSE), outcome)
       IN h' = [h EXCEPT ![r] =
                  IF outcome = "ok" THEN Done(f, "ok") ELSE [f EXCEPT !.pc = "create1"]]
    /\ UNCHANGED <<kvVars, blog_posts, storeVars, clock, served>>

\* faulty variant of CreateRecordValidated: every error of the create_record
\* is retried without validation
CreateRecordValidatedRetryAny(r, outcome) ==
    /\ h[r].pc = "create1"
    /\ LET f == Called(h[r], CreateInput(h[r], TRUE), outcome)
       IN h' = [h EXCEPT ![r] =
                  IF outcome # "ok" THEN [f EXCEPT !.pc = "create2"] ELSE Done(f, "ok")]
    /\ UNCHANGED <<kvVars, blog_posts, storeVars, clock, served>>

\* faulty variant of CreateRecordValidated: a create_record that fails for
\* good takes the local row back
CreateRecordValidatedRollback(r, outcome) ==
    /\ h[r].pc = "create1"
    /\ LET f == Called(h[r], CreateInput(h[r], TRUE), outcome)
       IN /\ h' = [h EXCEPT ![r] =
                     IF outcome # "ok" /\ Classify(outcome) = "SchemaInvalid"
                     THEN [f EXCEPT !.pc = "create2"]
                     ELSE Done(f, "ok")]
          /\ blog_posts' = IF outcome # "ok" /\ Classify(outcome) # "SchemaInvalid"
                           THEN PostDelete(blog_posts, h[r].post[1].uri)
                           ELSE blog_posts
    /\ UNCHANGED <<kvVars, storeVars, clock, served>>

\* create_record with validate = true and the match on its result
CreateRecordValidated(r, outcome) ==
    /\ h[r].pc = "create1"
    /\ LET f == Called(h[r], CreateInput(h[r], TRUE), outcome)
       IN h' = [h EXCEPT ![r] =
                  IF outcome # "ok" /\ Classify(outcome) = "SchemaInvalid"
                  THEN [f EXCEPT !.pc = "create2"]
                  ELSE Done(f, "ok")]
    /\ UNCHANGED <<kvVars, blog_posts, storeVars, clock, served>>

\* the retry create_record with validate = false
CreateRecordUnvalidated(r, outcome) ==
    /\ h[r].pc = "create2"
    /\ h' = [h EXCEPT ![r] = Done(Called(h[r], CreateInput(h[r], FALSE), outcome), "ok")]
    /\ UNCHANGED <<kvVars, blog_posts, storeVars, clock, served>>

\* uris a request path can name: those of the stored posts and a missing one
TargetUris == {row.uri : row \in blog_posts} \cup {MissingUri}

\* the steps of the handler serving slot r that make no call to the PDS
LocalStep(r) ==
    \/ \E hdr \in Identities : CreateBlogPost(r, hdr)
    \/ \E hdr \in Identities : BlogCreateFormSave(r, hdr)
    \/ \E hdr \in Identities, uri \in TargetUris, title \in {None, Some("T2")},
          content \in {None, Some("C2")} : UpdateBlogPostLoad(r, hdr, uri, title, content)
    \/ \E uri \in TargetUris : BlogEditFormLoad(r, "anon", uri, "T3", "C3")
    \/ HandlerSaveOrUpdateCount(r)
    \/ HandlerSaveOrUpdateWrite(r)
    \/ \E hdr \in Identities, uri \in TargetUris : DeleteBlogPostLoad(r, hdr, uri)
    \/ \E uri \in TargetUris : BlogDeleteFormLoad(r, "anon", RkeyOf(uri))
    \/ DeleteBlogPostExec(r)
    \/ \E outcome \in {"ok", "fail"} :
          \/ BlogCreateFormRestore(r, outcome)
          \/ UpdateBlogPostRestore(r, outcome)
          \/ BlogEditFormRestore(r, outcome)
    \/ Respond(r)

\* the server handling one request at a time, the PDS answering anything
Next ==
    \/ \E did \in Identities : OAuthCallback(did)
    \/ LocalStep(1)
    \/ \E outcome \in RemoteOutcomes \cup {"unsent"} : RegisterCustomLexicon(1, outcome)
    \/ \E outcome \in RemoteOutcomes :
          \/ PutRecordValidated(1, outcome)
          \/ PutRecordUnvalidated(1, outcome)
          \/ CreateRecordValidated(1, outcome)
          \/ CreateRecordUnvalidated(1, outcome)

Spec == HandlersInit /\ [][Next]_vars

\* the steps of the mirror: each returns once its remote call returns
MirrorStep ==
    \/ \E outcome \in {"ok", "fail"} :
          \/ BlogCreateFormRestore(1, outcome)
          \/ UpdateBlogPostRestore(1, outcome)
          \/ BlogEditFormRestore(1, outcome)
    \/ \E outcome \in RemoteOutcomes \cup {"unsent"} : RegisterCustomLexicon(1, outcome)
    \/ \E outcome \in RemoteOutcomes :
          \/ PutRecordValidated(1, outcome)
          \/ PutRecordUnvalidated(1, outcome)
          \/ CreateRecordValidated(1, outcome)
          \/ CreateRecordUnvalidated(1, outcome)

\* the handlers that mirror to the PDS (create form, API update, edit form),
\* one request at a time
LiveNext ==
    \/ OAuthCallback("did:plc:alice")
    \/ \E hdr \in Identities : BlogCreateFormSave(1, hdr)
    \/ \E uri \in TargetUris : UpdateBlogPostLoad(1, "did:plc:alice", uri, Some("T2"), None)
    \/ \E uri \in TargetUris : BlogEditFormLoad(1, "anon", uri, "T3", "C3")
    \/ HandlerSaveOrUpdateCount(1)
    \/ HandlerSaveOrUpdateWrite(1)
    \/ Respond(1)
    \/ MirrorStep

\* the mirroring handlers with every remote call of the mirror returning
SpecLive == HandlersInit /\ [][LiveNext]_vars /\ WF_vars(MirrorStep)

\* the server handling NumRequests requests concurrently, the PDS accepting
\* every call
NextConc ==
    \/ \E did \in Identities : OAuthCallback(did)
    \/ \E r \in Requests :
          \/ LocalStep(r)
          \/ RegisterCustomLexicon(r, "ok")
          \/ PutRecordValidated(r, "ok")
          \/ CreateRecordValidated(r, "ok")

SpecConc == HandlersInit /\ [][NextConc]_vars

-----------------------------------------------------------------------------
(* Claims on the request handlers *)

UpdateKinds == {"update_api", "update_form"}

WriteKinds == {"create_api", "create_form"} \cup UpdateKinds

\* the request in frame f sets the field
Sets(f, field) == f.req[1][field] # None

\* what running request a and then request b leaves in the fields that
\* either of them sets: b's value where b sets the field, else a's
SerialOutcome(a, b, row) ==
    \A field \in {"title", "content"} :
        /\ Sets(b, field) => row[field] = b.req[1][field][1]
        /\ (~Sets(b, field) /\ Sets(a, field)) => row[field] = a.req[1][field][1]

\* two update requests in flight together on one uri, both saved
BothSaved(r1, r2) ==
    /\ r1 # r2
    /\ h[r1].kind \in UpdateKinds /\ h[r2].kind \in UpdateKinds
    /\ h[r1].saved = "ok" /\ h[r2].saved = "ok"
    /\ h[r1].post[1].uri = h[r2].post[1].uri

\* C4: when two update requests for one uri were in flight together and
\* both saved, the row holds in title and content what running the two
\* requests one after the other in some order leaves: a field set by only
\* one of them holds that request's value.
C4_UpdatesSerialized ==
    \A r1, r2 \in Requests :
        BothSaved(r1, r2) =>
            \A row \in PostRowsOf(blog_posts, h[r1].post[1].uri) :
                SerialOutcome(h[r1], h[r2], row) \/ SerialOutcome(h[r2], h[r1], row)

\* both updates saved and the row matches neither order
C4_Witness ==
    \E r1, r2 \in Requests :
        /\ BothSaved(r1, r2)
        /\ \E row \in PostRowsOf(blog_posts, h[r1].post[1].uri) :
              /\ ~SerialOutcome(h[r1], h[r2], row)
              /\ ~SerialOutcome(h[r2], h[r1], row)

\* the row that the save / save_or_update of frame f committed is stored:
\* one row of the post's uri, holding every column the write bound
Committed(f) ==
    LET post == f.post[1]
        rows == PostRowsOf(blog_posts, post.uri)
    IN /\ Cardinality(rows) = 1
       /\ \A row \in rows :
             /\ UpdatedRow(row, post) = row
             /\ f.kind \notin UpdateKinds => row = InsertParams(post)

\* the mirror of frame f has started or the handler has returned
AfterCommit(f) ==
    f.pc \in {"saved_create", "saved_update", "lexicon", "put1", "put2",
              "create1", "create2", "done"}

\* C5: with requests handled one at a time, from the successful local save
\* of a create or update to the handler's return (through every outcome of
\* restore, lexicon registration, put_record and create_record) the stored
\* row is the row that save committed.
C5_MirrorKeepsLocalRow ==
    \A r \in Requests :
        (h[r].kind \in WriteKinds /\ h[r].saved = "ok" /\ AfterCommit(h[r])) =>
            Committed(h[r])

\* a mirror attempt ended after a remote call failed, the row still committed
C5_Witness ==
    \E r \in Requests :
        /\ h[r].kind \in WriteKinds /\ h[r].saved = "ok" /\ h[r].pc = "done"
        /\ Len(h[r].calls) >= 1
        /\ h[r].calls[Len(h[r].calls)].outcome # "ok"
        /\ Committed(h[r])

\* C6: a write handler returns success exactly when its local save /
\* save_or_update succeeded.
C6_ResultIsLocalResult ==
    \A r \in Requests :
        (h[r].kind \in WriteKinds /\ h[r].pc = "done") =>
            (h[r].res = "ok" <=> h[r].saved = "ok")

\* the create form handler returned an error after its save succeeded
C6_Witness ==
    \E r \in Requests :
        /\ h[r].kind = "create_form" /\ h[r].pc = "done"
        /\ h[r].saved = "ok" /\ h[r].res = "invalid_did"

\* the mirror of frame f has been entered: restore was called, a remote
\* call was made, or the handler is about to make one
MirrorEntered(f) ==
    \/ f.restored # "none"
    \/ f.calls # <<>>
    \/ f.pc \in {"lexicon", "put1", "put2", "create1", "create2"}

\* C7: a write handler calls restore, lexicon registration, put_record or
\* create_record only after its local save / save_or_update returned
\* success; a handler whose local write failed makes no remote call.
C7_MirrorAfterLocalSave ==
    \A r \in Requests :
        (h[r].kind \in WriteKinds /\ MirrorEntered(h[r])) => h[r].saved = "ok"

\* a remote call was made by a write handler
C7_Witness ==
    \E r \in Requests :
        /\ h[r].kind \in WriteKinds
        /\ Len(h[r].calls) >= 1
        /\ h[r].restored = "ok"

\* the first remote call of the update in frame f was put_record with
\* validate = true and failed with an error of the given class
FirstPutFailed(f, class) ==
    /\ f.kind \in UpdateKinds
    /\ Len(f.calls) >= 1
    /\ f.calls[1].input.op = "put"
    /\ f.calls[1].input.validate
    /\ f.calls[1].outcome # "ok"
    /\ Classify(f.calls[1].outcome) = class

\* C8: after a first put_record that failed with a schema/validation
\* error, the update makes exactly one more remote call, put_record with
\* validate = false for the same repo, collection, rkey and record, and
\* returns after it whatever its outcome.
C8_OneUnvalidatedRetry ==
    \A r \in Requests :
        FirstPutFailed(h[r], "SchemaInvalid") =>
            /\ Len(h[r].calls) <= 2
            /\ Len(h[r].calls) = 1 => h[r].pc = "put2"
            /\ Len(h[r].calls) = 2 =>
                  /\ h[r].calls[2].input = [h[r].calls[1].input EXCEPT !.validate = FALSE]
                  /\ h[r].pc = "done"

\* a create_record was sent after the put_record retry failed
C8_Witness ==
    \E r \in Requests :
        /\ FirstPutFailed(h[r], "SchemaInvalid")
        /\ Len(h[r].calls) >= 3
        /\ h[r].calls[2].input.op = "put"
        /\ h[r].calls[2].outcome # "ok"
        /\ h[r].calls[3].input.op = "create"

\* C9: after a first put_record that failed with an error that is neither
\* schema/validation nor not-found, the update returns without another
\* remote call.
C9_OtherErrorAbandons ==
    \A r \in Requests :
        FirstPutFailed(h[r], "Other") =>
            /\ Len(h[r].calls) = 1
            /\ h[r].pc = "done"

\* a create_record was sent after the put_record failed with another error
C9_Witness ==
    \E r \in Requests :
        /\ FirstPutFailed(h[r], "Other")
        /\ Len(h[r].calls) >= 2
        /\ h[r].calls[2].input.op = "create"

\* C10: after a first put_record that failed with a not-found error, the
\* update's next remote call is create_record with validate = true and the
\* repo, collection, rkey and record of the failed put_record.
C10_NotFoundCreates ==
    \A r \in Requests :
        FirstPutFailed(h[r], "NotFound") =>
            /\ Len(h[r].calls) = 1 => h[r].pc = "create1"
            /\ Len(h[r].calls) >= 2 =>
                  h[r].calls[2].input = [h[r].calls[1].input EXCEPT !.op = "create"]

\* the create_record after a not-found put_record was sent
C10_Witness ==
    \E r \in Requests :
        /\ FirstPutFailed(h[r], "NotFound")
        /\ Len(h[r].calls) >= 2
        /\ h[r].calls[2].input.op = "create"


\* the positions in the call log of frame f of the content-record calls
\* with the given operation and validate flag
RecordCalls(f, op, validate) ==
    {i \in 1..Len(f.calls) :
        /\ f.calls[i].input.op = op
        /\ f.calls[i].input.validate = validate
        /\ f.calls[i].input.collection = Collection}

\* C11: after a create_record of the content record with validate = true:
\* on success the handler returns with no further remote call; on a
\* schema/validation error it sends exactly one more call, create_record
\* with validate = false and the same repo, collection, rkey and record, and
\* returns; on any other error it returns with no further remote call.
C11_CreateRetriesOnce ==
    \A r \in Requests :
        \A i \in RecordCalls(h[r], "create", TRUE) :
            LET f == h[r]
                n == Len(f.calls)
                out == f.calls[i].outcome
            IN IF out # "ok" /\ Classify(out) = "SchemaInvalid"
               THEN /\ n <= i + 1
                    /\ n = i => f.pc = "create2"
                    /\ n = i + 1 =>
                          /\ f.calls[n].input = [f.calls[i].input EXCEPT !.validate = FALSE]
                          /\ f.pc = "done"
               ELSE n = i /\ f.pc = "done"

\* the create_record failed with a schema error, the retry without
\* validation was sent and the handler returned
C11_Witness ==
    \E r \in Requests :
        \E i \in RecordCalls(h[r], "create", TRUE) :
            /\ Classify(h[r].calls[i].outcome) = "SchemaInvalid"
            /\ h[r].calls[i].outcome # "ok"
            /\ Len(h[r].calls) = i + 1
            /\ h[r].pc = "done"

\* the mirror of frame f is under way
InMirror(f) ==
    f.pc \in {"saved_create", "saved_update", "lexicon", "put1", "put2", "create1", "create2"}

\* each of the four content-record calls was sent at most once, and at most
\* the lexicon registration besides them
CallsBounded(f) ==
    /\ \A op \in {"put", "create"}, validate \in BOOLEAN :
          Cardinality(RecordCalls(f, op, validate)) <= 1
    /\ Len(f.calls) <= 5

\* C12: when every remote call returns, a mirror attempt that has started
\* ends with the handler returning, and no attempt sends put_record or
\* create_record of the content record more than once per validate flag.
C12_MirrorTerminates ==
    /\ [](\A r \in Requests : CallsBounded(h[r]))
    /\ \A r \in Requests : InMirror(h[r]) ~> h[r].pc = "done"

\* an update's mirror ended after all four content-record calls
C12_Witness ==
    \E r \in Requests :
        /\ h[r].pc = "done"
        /\ \A op \in {"put", "create"}, validate \in BOOLEAN :
              Cardinality(RecordCalls(h[r], op, validate)) = 1


\* the handler of frame f may change the posts of the given author: its
\* request carries that author's identity
ActsFor(f, author) == ExtractSession(f.did) /\ f.did = author

\* C13: a stored row is changed or removed only by a step of an update or
\* delete handler whose request carries the identity equal to the row's
\* authorDid, and the row that replaces it has the same authorDid.
C13_OwnershipInvariant ==
    [][\A row \in blog_posts :
          row \notin blog_posts' =>
              /\ \E r \in Requests :
                    /\ h[r].pc \in {"counted", "delete"}
                    /\ h'[r].pc # h[r].pc
                    /\ ActsFor(h[r], row.authorDid)
              /\ \A q \in PostRowsOf(blog_posts', row.uri) : q.authorDid = row.authorDid]_vars

\* the edit form handler saved a post for a request without the author's
\* identity
C13_Witness ==
    \E r \in Requests :
        /\ h[r].kind = "update_form"
        /\ h[r].saved = "ok"
        /\ ~ActsFor(h[r], h[r].post[1].author_did)


\* C14: auth_session never holds two rows with one key; and a
\* save_or_update that finds the key as its existence check saw it (as every
\* call of a sequential series does) succeeds, after it get_by_did of the
\* key returns its payload, and the rows of the other keys are as before.
C14_OneSessionLastWriterWins ==
    /\ [](\A k \in Keys : Cardinality(RowsOf(kv["auth_session"], k)) <= 1)
    /\ [][\A c \in Callers :
            (/\ kpc[c] = "counted" /\ kpc'[c] = "done"
             /\ kcall[c].table = "auth_session"
             /\ kcount[c] = CountRows(kv["auth_session"], kcall[c].key)) =>
                /\ kres'[c] = "ok"
                /\ GetOutcome("auth_session", kv'["auth_session"], kcall[c].key)
                      = [kind |-> "ok", row |-> Some(kcall[c].val)]
                /\ \A k \in Keys \ {kcall[c].key} :
                      RowsOf(kv'["auth_session"], k) = RowsOf(kv["auth_session"], k)]_vars

\* a later save_or_update overwrote the payload of an earlier one
C14_Witness ==
    \E c, d \in Callers :
        /\ c # d
        /\ kpc[c] = "done" /\ kpc[d] = "done"
        /\ kcall[c].op = "save_or_update" /\ kcall[d].op = "save_or_update"
        /\ kcall[c].table = "auth_session" /\ kcall[d].table = "auth_session"
        /\ kcall[c].key = kcall[d].key
        /\ kres[c] = "ok" /\ kres[d] = "ok"
        /\ RowsOf(kv["auth_session"], kcall[c].key) = {[key |-> kcall[c].key, val |-> d]}

\* C15: a lookup of a key that has no row returns Ok(None), whatever the
\* key string, and leaves both tables as they were.
C15_AbsentIsNone ==
    [][\A c \in Callers :
          (/\ kpc[c] = "idle" /\ kpc'[c] = "done"
           /\ kcall'[c].op = "get"
           /\ RowsOf(kv[kcall'[c].table], kcall'[c].key) = {}) =>
              /\ kres'[c] = [kind |-> "ok", row |-> None]
              /\ kv' = kv]_vars

\* get_by_did was called with a key that is no DID and panicked
C15_Witness ==
    \E c \in Callers :
        /\ kpc[c] = "done" /\ kcall[c].op = "get"
        /\ kcall[c].table = "auth_session"
        /\ kres[c].kind = "panic"


\* C16: AuthSession::new / AuthState::new of a payload whose serialization
\* fails returns an error value to its caller and stores nothing.
C16_SerializationErrorReported ==
    [][\A c \in Callers :
          (/\ kpc[c] = "idle" /\ kpc'[c] = "done"
           /\ kcall'[c].op = "new"
           /\ SerdeToString(kcall'[c].val) = None) =>
              /\ kres'[c].kind = "error"
              /\ kv' = kv]_vars

\* new was called with a payload that does not serialize and panicked
C16_Witness ==
    \E c \in Callers :
        /\ kpc[c] = "done" /\ kcall[c].op = "new"
        /\ SerdeToString(kcall[c].val) = None
        /\ kres[c].kind = "panic"


\* C17: delete_by_did / delete_by_key returns Ok and removes from its table
\* exactly the rows of its key (none when the key is absent), leaving the
\* other table and blog_posts as they were; delete_by_uri returns Ok and
\* removes from blog_posts exactly the rows of its uri, leaving both
\* key/value tables as they were.
C17_DeleteIdempotentLocal ==
    [][\A c \in Callers :
          /\ (kpc[c] = "idle" /\ kpc'[c] = "done" /\ kcall'[c].op = "delete") =>
                LET t == kcall'[c].table
                    k == kcall'[c].key
                IN /\ kres'[c] = "ok"
                   /\ kv'[t] = kv[t] \ RowsOf(kv[t], k)
                   /\ \A u \in Tables \ {t} : kv'[u] = kv[u]
                   /\ blog_posts' = blog_posts
          /\ (spc[c] = "idle" /\ spc'[c] = "done" /\ scall'[c].op = "delete") =>
                /\ sres'[c] = "ok"
                /\ blog_posts' = blog_posts \ PostRowsOf(blog_posts, scall'[c].post.uri)
                /\ kv' = kv]_vars

\* a delete removed the row of its key and left the row of the other key
C17_Witness ==
    \E a, c \in Callers :
        /\ kpc[c] = "done" /\ kcall[c].op = "delete"
        /\ kpc[a] = "done" /\ kcall[a].op = "save_or_update" /\ kres[a] = "ok"
        /\ kcall[a].table = kcall[c].table /\ kcall[a].key = kcall[c].key
        /\ RowsOf(kv[kcall[c].table], kcall[c].key) = {}
        /\ kv[kcall[c].table] # {}


\* C18: BlogPostFromDb::save of a uri that has a row returns an error and
\* leaves blog_posts as it was; save of a uri that has no row returns Ok and
\* adds exactly the row of the record.
C18_SaveConflicts ==
    [][\A c \in Callers :
          (spc[c] = "idle" /\ spc'[c] = "done" /\ scall'[c].op = "save") =>
              LET post == scall'[c].post
              IN IF PostRowsOf(blog_posts, post.uri) # {}
                 THEN sres'[c] = "err" /\ blog_posts' = blog_posts
                 ELSE /\ sres'[c] = "ok"
                      /\ blog_posts' = blog_posts \cup {InsertParams(post)}
                      /\ Cardinality(blog_posts') = Cardinality(blog_posts) + 1]_vars

\* a save failed on a uri that has a row, and the row is the other caller's
C18_Witness ==
    \E c, d \in Callers :
        /\ c # d
        /\ spc[c] = "done" /\ scall[c].op = "save" /\ sres[c] = "err"
        /\ spc[d] = "done" /\ sres[d] = "ok"
        /\ PostRowsOf(blog_posts, scall[c].post.uri) = {InsertParams(scall[d].post)}

\* the write statement of a save_or_update of caller c runs on the table
\* its SELECT COUNT saw
UpsertWrites(c) ==
    /\ spc[c] = "counted" /\ spc'[c] = "done"
    /\ scount[c] = PostCount(blog_posts, scall[c].post.uri)

\* C19: a save_or_update that finds a row of its uri returns Ok and leaves
\* that row with the record's title, content, summary, tags, published,
\* updated_at and indexed_at and with the uri, authorDid and createdAt it
\* had; one that finds no row inserts the full record; the rows of other
\* uris stay as they were.
C19_UpsertFrame ==
    [][\A c \in Callers :
          UpsertWrites(c) =>
              LET post == scall[c].post
                  new == InsertParams(post)
                  old == PostRowsOf(blog_posts, post.uri)
              IN /\ sres'[c] = "ok"
                 /\ blog_posts' \ PostRowsOf(blog_posts', post.uri) = blog_posts \ old
                 /\ IF old = {}
                    THEN PostRowsOf(blog_posts', post.uri) = {new}
                    ELSE PostRowsOf(blog_posts', post.uri) =
                            {[uri |-> r.uri, authorDid |-> r.authorDid, createdAt |-> r.createdAt,
                              title |-> new.title, content |-> new.content,
                              summary |-> new.summary, tags |-> new.tags,
                              published |-> new.published, updatedAt |-> new.updatedAt,
                              indexedAt |-> new.indexedAt] : r \in old}]_vars

\* a save_or_update updated a row whose authorDid and createdAt differ from
\* the record's, and the row kept them
C19_Witness ==
    \E c \in Callers :
        /\ spc[c] = "done" /\ scall[c].op = "save_or_update" /\ sres[c] = "ok"
        /\ \E r \in PostRowsOf(blog_posts, scall[c].post.uri) :
              /\ r.title = scall[c].post.title
              /\ r.authorDid # scall[c].post.author_did
              /\ r.createdAt # scall[c].post.created_at

\* the row holds the record's values in the columns an upsert writes
HoldsRecord(row, post) ==
    LET new == InsertParams(post)
    IN /\ row.title = new.title /\ row.content = new.content
       /\ row.summary = new.summary /\ row.tags = new.tags
       /\ row.published = new.published
       /\ row.updatedAt = new.updatedAt /\ row.indexedAt = new.indexedAt

\* C20: a second save_or_update of the same record, run on the table the
\* first one left (one row of the uri, holding the record's values), returns
\* Ok and leaves blog_posts as it was.
C20_UpsertIdempotent ==
    [][\A c \in Callers :
          (/\ UpsertWrites(c)
           /\ scall[c].op = "save_or_update_again"
           /\ Cardinality(PostRowsOf(blog_posts, scall[c].post.uri)) = 1
           /\ \A r \in PostRowsOf(blog_posts, scall[c].post.uri) : HoldsRecord(r, scall[c].post)) =>
              /\ sres'[c] = "ok"
              /\ blog_posts' = blog_posts]_vars

\* the second save_or_update of a record has finished and the uri has the
\* one row holding the record's values
C20_Witness ==
    \E c \in Callers :
        /\ spc[c] = "done" /\ scall[c].op = "save_or_update_again" /\ sres[c] = "ok"
        /\ Cardinality(PostRowsOf(blog_posts, scall[c].post.uri)) = 1
        /\ \A r \in PostRowsOf(blog_posts, scall[c].post.uri) : HoldsRecord(r, scall[c].post)


-----------------------------------------------------------------------------
(* One caller of BlogPostFromDb, each call returning before the next *)

\* load_published_posts: ... WHERE published = 1 ORDER BY createdAt DESC LIMIT 20
PublishedLimit == 20

\* the orders in which ORDER BY field DESC may return the rows of S: rows
\* with equal values in either order
RECURSIVE Sorts(_, _)
Sorts(S, field) ==
    IF S = {} THEN {<<>>}
    ELSE UNION {{<<m>> \o rest : rest \in Sorts(S \ {m}, field)} :
                   m \in {x \in S : \A y \in S : y[field] <= x[field]}}

\* LIMIT n
Take(seq, n) == SubSeq(seq, 1, IF Len(seq) < n THEN Len(seq) ELSE n)

\* the values load_latest_posts may return
LoadLatestPosts(T) ==
    {[i \in 1..Len(q) |-> MapFromRow(q[i])] :
        q \in {Take(o, LatestLimit) : o \in Sorts(T, "indexedAt")}}

\* faulty variant of LoadPublishedPosts: without WHERE published = 1
LoadPublishedPostsAll(T) ==
    {[i \in 1..Len(q) |-> MapFromRow(q[i])] :
        q \in {Take(o, PublishedLimit) : o \in Sorts(T, "createdAt")}}

\* the values load_published_posts may return
LoadPublishedPosts(T) ==
    {[i \in 1..Len(q) |-> MapFromRow(q[i])] :
        q \in {Take(o, PublishedLimit) : o \in Sorts({r \in T : r.published = 1}, "createdAt")}}

\* faulty variant of MyLatestPost: without WHERE authorDid = ?1
MyLatestPostAnyAuthor(T, did) ==
    IF T = {} THEN {None}
    ELSE {Some(MapFromRow(Take(o, 1)[1])) : o \in Sorts(T, "createdAt")}

\* the values my_latest_post may return: ... WHERE authorDid = ?1 ORDER BY
\* createdAt DESC LIMIT 1, Ok(None) on QueryReturnedNoRows
MyLatestPost(T, did) ==
    LET own == {r \in T : r.authorDid = did}
    IN IF own = {} THEN {None}
       ELSE {Some(MapFromRow(Take(o, 1)[1])) : o \in Sorts(own, "createdAt")}

\* load_by_uri: SELECT * FROM blog_posts WHERE uri = ?1
LoadByUri(T, uri) ==
    IF PostRowsOf(T, uri) = {} THEN None
    ELSE Some(MapFromRow(CHOOSE r \in PostRowsOf(T, uri) : TRUE))

\* the tags a record is created with
TagInputs == {None, Some(<<>>), Some(<<"a", "b">>), Some(<<"b", "a">>)}

\* the post the caller writes and reads back
SeqUri == BuildUri("did:plc:alice", "post-1")

\* BlogPostRecordData values the caller converts and writes
SeqData(title, tags, published, created, now) ==
    [title |-> title, content |-> "C1", summary |-> None, tags |-> tags,
     published |-> published, created_at |-> created, updated_at |-> Some(now)]

\* the posts of another author that the store may hold besides, all
\* published.  The caller supplies created_at, each later than the one before
\* and none earlier than any created_at of SeqData; post i was converted by
\* from_codegen_record_data at FillerIndexed(i), no later than the first
\* clock value, and is saved at any time after
NumFillers == PublishedLimit

FillerCreated(i) == MaxClock + i - 1

FillerIndexed(i) == 2 - i

FillerData(i) ==
    [title |-> "T1", content |-> "C1", summary |-> None, tags |-> None,
     published |-> Some(TRUE), created_at |-> FillerCreated(i),
     updated_at |-> Some(FillerCreated(i))]

FillerPost(i) ==
    FromCodegenRecordData(BuildUri("did:plc:bob", "post-" \o ToString(i)),
                          "did:plc:bob", FillerData(i), FillerIndexed(i))

\* the caller made the call and got the result
Returned(op, arg, res) ==
    /\ scall' = [scall EXCEPT ![1] = [op |-> op, arg |-> arg]]
    /\ sres' = [sres EXCEPT ![1] = res]
    /\ UNCHANGED <<spc, scount, kvVars, h, served>>

\* the caller converted data, wrote the post and got the result
Wrote(op, data, post, res) ==
    /\ scall' = [scall EXCEPT ![1] = [op |-> op, arg |-> post, data |-> data]]
    /\ sres' = [sres EXCEPT ![1] = res]
    /\ UNCHANGED <<spc, scount, kvVars, h, served>>

\* from_codegen_record_data and save, of a post the store does not hold
SeqSave(title, tags, published, created) ==
    \E now \in clock..MaxClock :
        LET data == SeqData(title, tags, published, created, now)
            post == FromCodegenRecordData(SeqUri, "did:plc:alice", data, now)
        IN /\ PostInsertOk(blog_posts, post.uri)
           /\ clock' = now
           /\ blog_posts' = PostInsert(blog_posts, post)
           /\ Wrote("save", data, post, IF PostInsertOk(blog_posts, post.uri) THEN "ok" ELSE "err")

\* from_codegen_record_data and save_or_update, both statements
SeqSaveOrUpdate(title, tags, published, created) ==
    \E now \in clock..MaxClock :
        LET data == SeqData(title, tags, published, created, now)
            post == FromCodegenRecordData(SeqUri, "did:plc:alice", data, now)
        IN /\ clock' = now
           /\ blog_posts' = IF PostCount(blog_posts, post.uri) > 0
                            THEN PostUpdate(blog_posts, post)
                            ELSE PostInsert(blog_posts, post)
           /\ Wrote("save_or_update", data, post, "ok")

\* save of the next post of the other author
SeqSaveFiller ==
    LET i == Cardinality({r \in blog_posts : r.authorDid = "did:plc:bob"}) + 1
    IN /\ i <= NumFillers
       /\ blog_posts' = PostInsert(blog_posts, FillerPost(i))
       /\ Wrote("save", FillerData(i), FillerPost(i), "ok")
       /\ UNCHANGED clock

SeqLoadByUri ==
    /\ Returned("load_by_uri", SeqUri, LoadByUri(blog_posts, SeqUri))
    /\ UNCHANGED <<blog_posts, clock>>

SeqLoadLatestPosts ==
    /\ \E res \in LoadLatestPosts(blog_posts) : Returned("load_latest_posts", "", res)
    /\ UNCHANGED <<blog_posts, clock>>

SeqLoadPublishedPosts ==
    /\ \E res \in LoadPublishedPosts(blog_posts) : Returned("load_published_posts", "", res)
    /\ UNCHANGED <<blog_posts, clock>>

SeqMyLatestPost(did) ==
    /\ \E res \in MyLatestPost(blog_posts, did) : Returned("my_latest_post", did, res)
    /\ UNCHANGED <<blog_posts, clock>>

SeqNext ==
    \/ \E tags \in TagInputs, published \in {None, Some(FALSE), Some(TRUE)}, created \in {1, MaxClock} :
          SeqSave("T1", tags, published, created)
    \/ \E tags \in {None, Some(<<"b", "a">>)}, published \in {Some(FALSE), Some(TRUE)}, created \in {1, MaxClock} :
          SeqSaveOrUpdate("T2", tags, published, created)
    \/ SeqSaveFiller
    \/ SeqLoadByUri
    \/ SeqLoadLatestPosts
    \/ SeqLoadPublishedPosts
    \/ \E did \in {"did:plc:alice", "did:plc:bob", "did:plc:carol"} : SeqMyLatestPost(did)

SpecSeq == StoreInit /\ [][SeqNext]_vars

\* C21: a load_by_uri that directly follows a successful save of the uri
\* returns a post with the title, content, tags and published value of the
\* saved post.
C21_SaveLoadRoundTrip ==
    [][(/\ scall[1].op = "save" /\ sres[1] = "ok"
        /\ scall'[1].op = "load_by_uri"
        /\ scall'[1].arg = scall[1].arg.uri) =>
           /\ sres'[1] # None
           /\ sres'[1][1].title = scall[1].arg.title
           /\ sres'[1][1].content = scall[1].arg.content
           /\ sres'[1][1].tags = scall[1].arg.tags
           /\ sres'[1][1].published = scall[1].arg.published]_vars

\* a published post with tags was saved and read back
C21_Witness ==
    /\ scall[1].op = "load_by_uri"
    /\ sres[1] # None
    /\ sres[1][1].title = "T1"
    /\ sres[1][1].tags = TagsToJson(<<"b", "a">>)
    /\ sres[1][1].published

\* C22: the tags a post was written with are read back from the store and
\* converted by to_codegen_record_data as the same sequence in the same
\* order, and as absent both when they were absent and when they were empty.
C22_TagsRoundTrip ==
    scall[1].op \in {"save", "save_or_update"} =>
        LET back == LoadByUri(blog_posts, scall[1].arg.uri)
        IN /\ back # None
           /\ ToCodegenRecordData(back[1]).tags =
                  IF scall[1].data.tags \in {None, Some(<<>>)} THEN None
                  ELSE scall[1].data.tags

\* a post was written with two tags, the later in the alphabet first
C22_Witness ==
    /\ scall[1].op = "save"
    /\ scall[1].data.tags = Some(<<"b", "a">>)
    /\ ToCodegenRecordData(LoadByUri(blog_posts, scall[1].arg.uri)[1]).tags = Some(<<"b", "a">>)

\* C23: whatever the store holds, every post load_published_posts returns is
\* a stored post with published true, and no returned post has a created_at
\* greater than that of a post returned before it.
C23_PublishedOnlyByCreatedAt ==
    scall[1].op = "load_published_posts" =>
        /\ \A i \in 1..Len(sres[1]) :
              /\ sres[1][i].published
              /\ \E r \in blog_posts : MapFromRow(r) = sres[1][i]
        /\ \A i, j \in 1..Len(sres[1]) :
              i < j => sres[1][i].created_at >= sres[1][j].created_at

\* load_published_posts returned several posts while the store held a post
\* that is not published
C23_Witness ==
    /\ scall[1].op = "load_published_posts"
    /\ Len(sres[1]) >= 2
    /\ \E r \in blog_posts : r.published = 0

\* C24: whatever the store holds, every post load_latest_posts returns has
\* an indexed_at strictly smaller than that of the post returned before it.
C24_LatestStrictlyDescending ==
    scall[1].op = "load_latest_posts" =>
        \A i \in 1..(Len(sres[1]) - 1) :
            sres[1][i + 1].indexed_at < sres[1][i].indexed_at

\* load_latest_posts returned posts of two authors
C24_Witness ==
    /\ scall[1].op = "load_latest_posts"
    /\ \E i, j \in 1..Len(sres[1]) : sres[1][i].author_did # sres[1][j].author_did

\* C25: my_latest_post of an author without posts returns None; of an author
\* with posts it returns a stored post of that author, and no post of that
\* author has a greater created_at.
C25_MyLatestPost ==
    scall[1].op = "my_latest_post" =>
        LET own == {r \in blog_posts : r.authorDid = scall[1].arg}
        IN IF own = {} THEN sres[1] = None
           ELSE /\ sres[1] # None
                /\ sres[1][1].author_did = scall[1].arg
                /\ \E r \in own : MapFromRow(r) = sres[1][1]
                /\ \A r \in own : r.createdAt <= sres[1][1].created_at

\* my_latest_post returned a post of an author with several posts while
\* the store held a post of another author
C25_Witness ==
    /\ scall[1].op = "my_latest_post"
    /\ sres[1] # None
    /\ Cardinality({r \in blog_posts : r.authorDid = scall[1].arg}) >= 2
    /\ \E r \in blog_posts : r.authorDid # scall[1].arg

\* C26: when save_or_update writes published = true and another updated_at
\* to a stored post that is not published, then, whatever else the store
\* holds, every result load_published_posts may return next holds the post,
\* and every result load_latest_posts may return next holds it with the
\* updated_at written.
C26_PublishVisibleInLists ==
    [][(/\ scall'[1] # scall[1]
        /\ scall'[1].op = "save_or_update"
        /\ scall'[1].data.published = Some(TRUE)
        /\ \E r \in PostRowsOf(blog_posts, scall'[1].arg.uri) :
              r.published = 0 /\ r.updatedAt # scall'[1].arg.updated_at) =>
           /\ \A res \in LoadPublishedPosts(blog_posts') :
                 \E i \in 1..Len(res) : res[i].uri = scall'[1].arg.uri
           /\ \A res \in LoadLatestPosts(blog_posts') :
                 \E i \in 1..Len(res) :
                     /\ res[i].uri = scall'[1].arg.uri
                     /\ res[i].updated_at = scall'[1].arg.updated_at]_vars

\* the post was published by save_or_update with another updated_at, and
\* load_published_posts ran next with more posts in the store than it returns
C26_Witness ==
    /\ scall[1].op = "load_published_posts"
    /\ Len(sres[1]) = PublishedLimit
    /\ \E r \in PostRowsOf(blog_posts, SeqUri) :
          r.published = 1 /\ r.title = "T2" /\ r.updatedAt # r.createdAt
    /\ Cardinality({r \in blog_posts : r.published = 1}) > PublishedLimit

-----------------------------------------------------------------------------
(* The remote address the two update handlers derive from a uri *)

\* update_blog_post: rkey = uri.rsplit('/').next(), collection =
\* uri.split('/').nth(3); a put_record is built if both exist and the
\* collection is the custom one
ApiAddress(uri) ==
    LET parts == Split(uri, "/")
    IN IF Len(parts) >= 4 /\ parts[4] = Collection
       THEN Some([collection |-> parts[4], rkey |-> parts[Len(parts)]])
       ELSE None

\* blog_edit_form_handler_post: parts = uri.split('/'), and if there are five
\* or more, collection = parts[3] and rkey = parts[4] (counted from 0)
FormAddress(uri) ==
    LET parts == Split(uri, "/")
    IN IF Len(parts) >= 5 /\ parts[4] = Collection
       THEN Some([collection |-> parts[4], rkey |-> parts[5]])
       ELSE None

\* what may follow the author id in the uri of a stored post
AddrTails ==
    {""} \cup {"/" \o c \o t : c \in {Collection, "app.bsky.feed.post"},
                              t \in {"", "/post-1", "/post-2", "/2024/post-1",
                                     "/post-1/2024", "/2024/11/post-1"}}

AddrUris == {"at://" \o d \o t : d \in Authors, t \in AddrTails}

\* the uri of the post both handlers are asked to update
AddrInit ==
    /\ KvIdle /\ StoreIdle /\ clock = 1 /\ served = 0
    /\ \E u \in AddrUris : h = [r \in Requests |-> [IdleFrame EXCEPT !.uri = u]]

\* update_blog_post derives the address; the result is kept in slot 1
DeriveApi ==
    /\ spc[1] = "idle"
    /\ spc' = [spc EXCEPT ![1] = "derived"]
    /\ sres' = [sres EXCEPT ![1] = ApiAddress(h[1].uri)]
    /\ UNCHANGED <<kvVars, blog_posts, scall, scount, handlerVars>>

\* blog_edit_form_handler_post derives the address; the result is kept in
\* slot 2
DeriveForm ==
    /\ spc[2] = "idle"
    /\ spc' = [spc EXCEPT ![2] = "derived"]
    /\ sres' = [sres EXCEPT ![2] = FormAddress(h[1].uri)]
    /\ UNCHANGED <<kvVars, blog_posts, scall, scount, handlerVars>>

AddrNext == DeriveApi \/ DeriveForm

SpecAddr == AddrInit /\ [][AddrNext]_vars

-----------------------------------------------------------------------------
(* Claims on the handlers, continued *)

\* the identity whose session the handler of frame f restores
RestoreDid(f) == IF f.kind = "update_form" THEN f.post[1].author_did ELSE f.did

\* C28: when a write handler calls restore for an identity that has no row
\* in auth_session, the restore fails and the handler returns its success
\* result with no put_record or create_record sent and with the row its
\* local save committed still stored.
C28_MissingSessionNotFatal ==
    [][\A r \in Requests :
          (/\ h[r].pc \in {"saved_create", "saved_update"}
           /\ h'[r].restored # "none"
           /\ RowsOf(kv["auth_session"], RestoreDid(h[r])) = {}) =>
              /\ h'[r].restored = "fail"
              /\ h'[r].pc = "done"
              /\ h'[r].res = "ok"
              /\ h'[r].calls = <<>>
              /\ Committed(h[r])']_vars

\* a create form request returned after a
\* restore for an identity without a stored session
C28_Witness ==
    /\ h[1].kind = "create_form"
    /\ h[1].pc = "done"
    /\ h[1].restored = "fail"
    /\ h[1].res = "ok"
    /\ RowsOf(kv["auth_session"], h[1].did) = {}

-----------------------------------------------------------------------------
(* The tags the create handlers accept *)

\* BlogPostRecord::validate: "Cannot have more than 10 tags"
MaxTags == 10

\* BlogPostRecord::validate: "Each tag cannot be longer than 50 characters"
MaxTagLen == 50

\* str::trim_start_matches / trim_end_matches of one character
RECURSIVE TrimStartMatches(_, _)
TrimStartMatches(s, ch) ==
    IF Len(s) > 0 /\ SubSeq(s, 1, 1) = ch
    THEN TrimStartMatches(SubSeq(s, 2, Len(s)), ch) ELSE s

RECURSIVE TrimEndMatches(_, _)
TrimEndMatches(s, ch) ==
    IF Len(s) > 0 /\ SubSeq(s, Len(s), Len(s)) = ch
    THEN TrimEndMatches(SubSeq(s, 1, Len(s) - 1), ch) ELSE s

\* str::trim, of strings whose only whitespace is the space
Trim(s) == TrimEndMatches(TrimStartMatches(s, " "), " ")

\* .trim_matches('\"')
TrimQuotes(s) == TrimEndMatches(TrimStartMatches(s, "\""), "\"")

\* starts_with('[') && ends_with(']')
Bracketed(s) == Len(s) >= 1 /\ SubSeq(s, 1, 1) = "[" /\ SubSeq(s, Len(s), Len(s)) = "]"

\* serde_json::from_str::<Vec<String>>(s).is_ok(), of a bracketed string
\* without escapes and without whitespace between the elements
JsonStringsOk(s) ==
    LET inner == SubSeq(s, 2, Len(s) - 1)
        items == Split(inner, ",")
    IN \/ inner = ""
       \/ \A i \in 1..Len(items) :
              /\ Len(items[i]) >= 2
              /\ SubSeq(items[i], 1, 1) = "\""
              /\ SubSeq(items[i], Len(items[i]), Len(items[i])) = "\""

\* .map(|s| s.trim().trim_matches('\"').to_string()).filter(|s| !s.is_empty())
CleanTags(vec) == SelectSeq([i \in 1..Len(vec) |-> TrimQuotes(Trim(vec[i]))], LAMBDA t : t # "")

\* parse_tags_input
ParseTagsInput(raw) ==
    LET trimmed == Trim(raw)
        vec == TagsFromJson(trimmed)
        inner == Trim(vec[1])
        vec2 == IF Len(vec) = 1 /\ Bracketed(inner) /\ JsonStringsOk(inner)
                THEN TagsFromJson(inner) ELSE vec
        parts == CleanTags(Split(trimmed, ","))
    IN IF trimmed = "" THEN None
       ELSE IF Bracketed(trimmed) /\ JsonStringsOk(trimmed)
       THEN IF CleanTags(vec2) # <<>> THEN Some(CleanTags(vec2)) ELSE None
       ELSE IF parts = <<>> THEN None ELSE Some(parts)

\* a tag of MaxTagLen + 1 characters
LongTag == "xxxxxxxxxxxxxxxxxxxxxxxxxxxxxxxxxxxxxxxxxxxxxxxxxxx"

\* the tags field of CreateBlogPostForm
TagForms ==
    {None, Some(""), Some(" "), Some("rust, atproto"), Some("[\"rust\",\"atproto\"]"),
     Some("[\"[]\"]"), Some("[rust]"), Some(LongTag),
     Some("t1,t2,t3,t4,t5,t6,t7,t8,t9,t10,t11")}

\* the tags field of CreateBlogPostRequest
TagVecs ==
    {None, Some(<<>>), Some(<<"rust", "atproto">>), Some(<<LongTag>>),
     Some(<<"t1", "t2", "t3", "t4", "t5", "t6", "t7", "t8", "t9", "t10", "t11">>)}

\* create_blog_post called by did:plc:alice with tags in the request: the
\* whole handler (it makes no remote call)
CreateBlogPostTags(r, tags) ==
    /\ h[r].pc = "idle"
    /\ Accept
    /\ \E now \in clock..MaxClock :
        LET hdr == "did:plc:alice"
            uri == BuildUri(hdr, NewRkey(now))
            data == [ApiCreateData(now) EXCEPT !.tags = tags]
            post == FromCodegenRecordData(uri, hdr, data, now)
            f == [Arrived("create_api", hdr, uri) EXCEPT !.data = Some(data), !.post = Some(post)]
        IN /\ clock' = now
           /\ blog_posts' = PostInsert(blog_posts, post)
           /\ h' = [h EXCEPT ![r] =
                      LET g == AfterSave(f, PostInsertOk(blog_posts, uri), "saved")
                      IN IF g.pc = "saved" THEN Done(g, "ok") ELSE g]
    /\ UNCHANGED <<kvVars, storeVars>>

\* blog_create_form_handler_post called by did:plc:alice with a tags field,
\* up to blog_post.save(..).await?
BlogCreateFormSaveTags(r, raw) ==
    /\ h[r].pc = "idle"
    /\ Accept
    /\ \E now \in clock..MaxClock :
        LET hdr == "did:plc:alice"
            rkey == NewRkey(now)
            uri == BuildUri(hdr, rkey)
            data == [FormCreateData(now) EXCEPT
                        !.tags = IF raw = None THEN None ELSE ParseTagsInput(raw[1])]
            post == FromCodegenRecordData(uri, hdr, data, now)
            f == [Arrived("create_form", hdr, uri) EXCEPT
                     !.req = Some([tags |-> raw]),
                     !.data = Some(data), !.post = Some(post),
                     !.mirror = Some([repo |-> hdr, collection |-> Collection, rkey |-> rkey])]
        IN /\ clock' = now
           /\ blog_posts' = PostInsert(blog_posts, post)
           /\ h' = [h EXCEPT ![r] =
                      AfterSave(f, PostInsertOk(blog_posts, uri), "saved_create")]
    /\ UNCHANGED <<kvVars, storeVars>>

\* the two create handlers, one request at a time, with the mirror of the
\* form handler
TagsNext ==
    \/ OAuthCallback("did:plc:alice")
    \/ \E tags \in TagVecs : CreateBlogPostTags(1, tags)
    \/ \E raw \in TagForms : BlogCreateFormSaveTags(1, raw)
    \/ \E outcome \in {"ok", "fail"} : BlogCreateFormRestore(1, outcome)
    \/ \E outcome \in RemoteOutcomes \cup {"unsent"} : RegisterCustomLexicon(1, outcome)
    \/ \E outcome \in RemoteOutcomes :
          \/ CreateRecordValidated(1, outcome)
          \/ CreateRecordUnvalidated(1, outcome)
    \/ Respond(1)

SpecTags == HandlersInit /\ [][TagsNext]_vars

\* C29: every post in blog_posts has at most 10 tags, each of at most 50
\* characters.
C29_TagLimits ==
    \A row \in blog_posts :
        LET tags == TagsFromJson(row.tags)
        IN /\ Len(tags) <= MaxTags
           /\ \A i \in 1..Len(tags) : Len(tags[i]) <= MaxTagLen

\* the form handler stored a post with the two tags of a comma-separated
\* tags field
C29_Witness ==
    /\ h[1].kind = "create_form"
    /\ h[1].pc = "done"
    /\ h[1].req = Some([tags |-> Some("rust, atproto")])
    /\ \E row \in PostRowsOf(blog_posts, h[1].uri) :
          TagsFromJson(row.tags) = <<"rust", "atproto">>

-----------------------------------------------------------------------------
(* Claims on concurrent requests, continued *)

\* C30: every row a create or upsert writes carries an indexed_at that is
\* no earlier than any time read before the write, and no earlier than the
\* indexed_at of the row of the same uri that it replaces, also when the
\* writes come from concurrent requests.
C30_IndexedAtIsWriteTime ==
    [][\A row \in blog_posts' \ blog_posts :
          /\ row.indexedAt >= clock'
          /\ \A old \in PostRowsOf(blog_posts, row.uri) : old.indexedAt <= row.indexedAt]_vars

\* an update request committed its upsert over a row that was indexed
\* earlier
C30_Witness ==
    \E r \in Requests :
        /\ h[r].kind \in UpdateKinds
        /\ h[r].saved = "ok"
        /\ h[r].pc = "saved_update"
        /\ \E row \in PostRowsOf(blog_posts, h[r].post[1].uri) :
              row.indexedAt = h[r].post[1].indexed_at /\ row.createdAt < row.indexedAt

-----------------------------------------------------------------------------
(* Claims on the mirror, continued *)

\* the calls of frame f that send the content record to its address
AddressCalls(f) ==
    {i \in 1..Len(f.calls) :
        /\ f.calls[i].input.op \in {"put", "create"}
        /\ f.calls[i].input.collection = Collection
        /\ f.calls[i].input.rkey = RkeyOf(f.uri)}

\* C31: a create or update request whose local write succeeded, made while
\* auth_session holds a session of the identity and with no failed restore,
\* returns only after at least one put_record or create_record for the
\* address of the record was sent.
C31_WriteIsMirrored ==
    [][\A r \in Requests :
          (/\ h[r].pc # "done"
           /\ h'[r].pc = "done"
           /\ h'[r].kind \in WriteKinds
           /\ h'[r].saved = "ok"
           /\ h'[r].restored # "fail"
           /\ RowsOf(kv["auth_session"], RestoreDid(h'[r])) # {}) =>
              AddressCalls(h'[r]) # {}]_vars

\* a create form request returned after a create_record for the address of
\* its record
C31_Witness ==
    /\ h[1].kind = "create_form"
    /\ h[1].pc = "done"
    /\ h[1].saved = "ok"
    /\ h[1].restored = "ok"
    /\ AddressCalls(h[1]) # {}

-----------------------------------------------------------------------------
(* OAuthClientBuilder of oauth.rs.  scall[1] is the sequence of setter     *)
(* calls made so far, sres[1] the builder the last of them returned, and   *)
(* sres[2] what build returned.                                            *)

\* atrium_identity::did::DEFAULT_PLC_DIRECTORY_URL
DefaultPlcDirectoryUrl == "https://plc.directory"

\* OAuthClientBuilder::new
BuilderNew ==
    [host |-> "127.0.0.1",
     port |-> 8080,
     db_pool |-> None,
     scopes |-> <<"atproto", "transition:generic">>,
     plc_directory_url |-> DefaultPlcDirectoryUrl]

\* OAuthClientBuilder::host
SetHost(b, host) == [b EXCEPT !.host = host]

\* faulty variant of SetPort: the setter puts the host back to its default
SetPortResetHost(b, port) == [b EXCEPT !.port = port, !.host = "127.0.0.1"]

\* OAuthClientBuilder::port
SetPort(b, port) == [b EXCEPT !.port = port]

\* OAuthClientBuilder::db_pool
SetDbPool(b, pool) == [b EXCEPT !.db_pool = Some(pool)]

\* OAuthClientBuilder::scopes
SetScopes(b, scopes) == [b EXCEPT !.scopes = scopes]

\* OAuthClientBuilder::plc_directory_url
SetPlcDirectoryUrl(b, url) == [b EXCEPT !.plc_directory_url = url]

\* the setters by the name of their field
Setter(b, field, v) ==
    CASE field = "host" -> SetHost(b, v)
      [] field = "port" -> SetPort(b, v)
      [] field = "db_pool" -> SetDbPool(b, v)
      [] field = "scopes" -> SetScopes(b, v)
      [] field = "plc_directory_url" -> SetPlcDirectoryUrl(b, v)

\* the values the setters are called with
SetterArgs ==
    [host |-> {"localhost", "127.0.0.1"},
     port |-> {3000, 8080},
     db_pool |-> {"pool"},
     scopes |-> {<<>>, <<"atproto">>},
     plc_directory_url |-> {"https://custom-plc.example.com"}]

BuilderFields == DOMAIN SetterArgs

\* faulty variant of BuildOutcomes: a missing pool is replaced by a default
\* one
BuildOutcomesDefaultPool(b) ==
    {[kind |-> "ClientCreationError", built |-> {"http_client", "state_store", "session_store"}],
     [kind |-> "Ok", built |-> {"http_client", "state_store", "session_store", "client"}]}

\* OAuthClientBuilder::build: what it returns and what it has constructed by
\* then; OAuthClient::new may fail
BuildOutcomes(b) ==
    IF b.db_pool = None
    THEN {[kind |-> "InvalidConfiguration", built |-> {}]}
    ELSE {[kind |-> "ClientCreationError", built |-> {"http_client", "state_store", "session_store"}],
          [kind |-> "Ok", built |-> {"http_client", "state_store", "session_store", "client"}]}

BuilderInit ==
    /\ KvIdle /\ HandlersIdle
    /\ blog_posts = {}
    /\ scall = [c \in Callers |-> IF c = 1 THEN <<>> ELSE NoCall]
    /\ spc = [c \in Callers |-> "idle"]
    /\ scount = [c \in Callers |-> 0]
    /\ sres = [c \in Callers |-> IF c = 1 THEN BuilderNew ELSE "none"]

\* one setter call on the builder
CallSetter(field, v) ==
    /\ spc[1] = "idle"
    /\ Len(scall[1]) < MaxSetterCalls
    /\ scall' = [scall EXCEPT ![1] = Append(@, [op |-> field, arg |-> v])]
    /\ sres' = [sres EXCEPT ![1] = Setter(@, field, v)]
    /\ UNCHANGED <<kvVars, blog_posts, spc, scount, handlerVars>>

\* build, which consumes the builder
Build ==
    /\ spc[1] = "idle"
    /\ spc' = [spc EXCEPT ![1] = "built"]
    /\ \E out \in BuildOutcomes(sres[1]) : sres' = [sres EXCEPT ![2] = out]
    /\ UNCHANGED <<kvVars, blog_posts, scall, scount, handlerVars>>

BuilderNext ==
    \/ \E field \in BuilderFields : \E v \in SetterArgs[field] : CallSetter(field, v)
    \/ Build

SpecBuilder == BuilderInit /\ [][BuilderNext]_vars

\* the calls of the setter of a field among the calls made
CallsOf(calls, field) == {i \in 1..Len(calls) : calls[i].op = field}

\* C32: build of a builder on which db_pool was never called, whatever
\* other setters were called, returns InvalidConfiguration and has
\* constructed no client and no store.
C32_BuildRequiresPool ==
    (spc[1] = "built" /\ CallsOf(scall[1], "db_pool") = {}) =>
        /\ sres[2].kind = "InvalidConfiguration"
        /\ sres[2].built = {}

\* build was called after three setter calls, none of them db_pool
C32_Witness ==
    /\ spc[1] = "built"
    /\ Len(scall[1]) = 3
    /\ CallsOf(scall[1], "db_pool") = {}
    /\ sres[2].kind = "InvalidConfiguration"

\* the value a field has after the calls: that of the last call of its
\* setter, its default if there is none
Expected(calls, field) ==
    IF CallsOf(calls, field) = {} THEN BuilderNew[field]
    ELSE LET last == CHOOSE i \in CallsOf(calls, field) : \A j \in CallsOf(calls, field) : j <= i
         IN IF field = "db_pool" THEN Some(calls[last].arg) ELSE calls[last].arg

\* C33: after any sequence of setter calls every field of the builder has
\* the value of the last call of its setter, or its default when its setter
\* was not called.
C33_SettersIndependent ==
    \A field \in BuilderFields : sres[1][field] = Expected(scall[1], field)

\* host was set twice, then port, and the builder has the second host
C33_Witness ==
    /\ Len(scall[1]) = 3
    /\ scall[1][1] = [op |-> "host", arg |-> "127.0.0.1"]
    /\ scall[1][2] = [op |-> "host", arg |-> "localhost"]
    /\ scall[1][3].op = "port"
    /\ sres[1].host = "localhost"

-----------------------------------------------------------------------------
(* The classification of a put_record error by the two update handlers *)

\* blog_edit_form_handler_post: the if / else if / else on the text of a
\* put_record error
ClassifyEditForm(msg) ==
    IF Contains(msg, "Lexicon not found") \/ Contains(msg, "schema") THEN "SchemaInvalid"
    ELSE IF Contains(msg, "Record not found") \/ Contains(msg, "Could not find record")
         THEN "NotFound"
         ELSE "Other"

\* phrases the text of a remote error may hold
ErrPhrases == <<"Lexicon not found", "schema", "Record not found", "Could not find record", "timeout">>

SchemaPhrases == {1, 2}

NotFoundPhrases == {3, 4}

\* format!("{}", e) of an error that holds the phrases of S
RECURSIVE ErrText(_, _)
ErrText(S, i) ==
    IF i > Len(ErrPhrases) THEN ""
    ELSE (IF i \in S THEN ErrPhrases[i] \o "; " ELSE "") \o ErrText(S, i + 1)

\* the error put_record answered with: scall[1] holds its phrases and text
ClassifyInit ==
    /\ KvIdle /\ HandlersIdle
    /\ blog_posts = {}
    /\ \E S \in SUBSET (1..Len(ErrPhrases)) :
          scall = [c \in Callers |-> IF c = 1 THEN [op |-> "put", phrases |-> S, msg |-> ErrText(S, 1)]
                                    ELSE NoCall]
    /\ spc = [c \in Callers |-> "idle"]
    /\ scount = [c \in Callers |-> 0]
    /\ sres = [c \in Callers |-> "none"]

\* update_blog_post classifies the error; the result is kept in slot 1
ClassifyApi ==
    /\ spc[1] = "idle"
    /\ spc' = [spc EXCEPT ![1] = "classified"]
    /\ sres' = [sres EXCEPT ![1] = Classify(scall[1].msg)]
    /\ UNCHANGED <<kvVars, blog_posts, scall, scount, handlerVars>>

\* blog_edit_form_handler_post classifies the error; the result is kept in
\* slot 2
ClassifyForm ==
    /\ spc[2] = "idle"
    /\ spc' = [spc EXCEPT ![2] = "classified"]
    /\ sres' = [sres EXCEPT ![2] = ClassifyEditForm(scall[1].msg)]
    /\ UNCHANGED <<kvVars, blog_posts, scall, scount, handlerVars>>

ClassifyNext == ClassifyApi \/ ClassifyForm

SpecClassify == ClassifyInit /\ [][ClassifyNext]_vars

\* C34: both update handlers give every put_record error the same one of
\* the three classes: SchemaInvalid if its text holds a schema phrase, also
\* when it holds a not-found phrase as well; NotFound if it holds a
\* not-found phrase and no schema phrase; Other if it holds neither.
C34_ClassificationTotal ==
    (spc[1] = "classified" /\ spc[2] = "classified") =>
        /\ sres[1] = sres[2]
        /\ sres[1] = IF scall[1].phrases \cap SchemaPhrases # {} THEN "SchemaInvalid"
                     ELSE IF scall[1].phrases \cap NotFoundPhrases # {} THEN "NotFound"
                     ELSE "Other"

\* both handlers classified an error whose text holds a schema phrase and a
\* not-found phrase
C34_Witness ==
    /\ spc[1] = "classified" /\ spc[2] = "classified"
    /\ scall[1].phrases = {2, 3}
    /\ sres[1] = "SchemaInvalid"
    /\ sres[2] = "SchemaInvalid"

-----------------------------------------------------------------------------
(* The lookup of a post by the API handlers, with more posts in the store  *)
(* than load_latest_posts returns                                          *)

\* one post more than load_latest_posts returns
NumLookupPosts == LatestLimit + 1

\* the uris the requests ask for: the post indexed last and the post
\* indexed first
LookupUris == {FillerPost(1).uri, FillerPost(NumLookupPosts).uri}

\* save of the next post of did:plc:bob, before the first request arrives
LookupSaveFiller ==
    LET i == Cardinality(blog_posts) + 1
    IN /\ served = 0
       /\ i <= NumLookupPosts
       /\ blog_posts' = PostInsert(blog_posts, FillerPost(i))
       /\ Wrote("save", FillerData(i), FillerPost(i), "ok")
       /\ UNCHANGED clock

\* get_blog_post: the whole handler
GetBlogPost(r, hdr, uri) ==
    /\ h[r].pc = "idle"
    /\ Accept
    /\ \E found \in FindLatest(blog_posts, uri) :
        LET f == Arrived("get_api", hdr, uri)
        IN h' = [h EXCEPT ![r] =
                IF ~ExtractSession(hdr) THEN Done(f, "unauthorized")
                ELSE IF found = None THEN Done(f, "not_found")
                ELSE Done([f EXCEPT !.post = found], "ok")]
    /\ UNCHANGED <<kvVars, blog_posts, storeVars, clock>>

\* the API handlers called by did:plc:bob, who has no stored session, one
\* request at a time
LookupNext ==
    \/ LookupSaveFiller
    \/ \E uri \in LookupUris : GetBlogPost(1, "did:plc:bob", uri)
    \/ \E uri \in LookupUris : UpdateBlogPostLoad(1, "did:plc:bob", uri, Some("T2"), None)
    \/ HandlerSaveOrUpdateCount(1)
    \/ HandlerSaveOrUpdateWrite(1)
    \/ \E outcome \in {"ok", "fail"} : UpdateBlogPostRestore(1, outcome)
    \/ \E uri \in LookupUris : DeleteBlogPostLoad(1, "did:plc:bob", uri)
    \/ DeleteBlogPostExec(1)
    \/ Respond(1)

SpecLookup == HandlersInit /\ [][LookupNext]_vars

LookupKinds == {"get_api", "update_api", "delete_api"}

\* C35: a get, update or delete request of an authenticated caller for a
\* uri that blog_posts holds is not answered not_found, however many posts
\* the store holds.
C35_LookupFindsStoredPost ==
    [][\A r \in Requests :
          (/\ h[r].pc = "idle"
           /\ h'[r].kind \in LookupKinds
           /\ ExtractSession(h'[r].did)
           /\ PostRowsOf(blog_posts, h'[r].uri) # {}) =>
              h'[r].res # "not_found"]_vars

\* get_blog_post found a post while the store held as many posts as
\* load_latest_posts returns
C35_Witness ==
    /\ h[1].kind = "get_api"
    /\ h[1].pc = "done"
    /\ h[1].res = "ok"
    /\ h[1].uri = FillerPost(1).uri
    /\ Cardinality(blog_posts) = LatestLimit

-----------------------------------------------------------------------------
(* Claims on concurrent requests: delete and create *)

DeleteKinds == {"delete_api", "delete_form"}

\* C36: while a request that deleted a uri has returned success and no
\* create request for the uri has run, no step puts a row of that uri into
\* blog_posts: an update request that had loaded the post before the delete
\* does not insert it again.
C36_DeletedStaysAbsent ==
    [][\A d \in Requests :
          (/\ h[d].kind \in DeleteKinds
           /\ h[d].pc = "done"
           /\ h[d].res = "ok"
           /\ PostRowsOf(blog_posts, h[d].uri) = {}
           /\ PostRowsOf(blog_posts', h[d].uri) # {}) =>
              \E r \in Requests :
                  /\ h[r].pc = "idle"
                  /\ h'[r].kind \in {"create_api", "create_form"}
                  /\ h'[r].uri = h[d].uri]_vars

\* a delete returned success while an update request that had loaded the
\* post was still before its write
C36_Witness ==
    \E d, r \in Requests :
        /\ h[d].kind = "delete_api"
        /\ h[d].pc = "done"
        /\ h[d].res = "ok"
        /\ PostRowsOf(blog_posts, h[d].uri) = {}
        /\ h[r].kind \in UpdateKinds
        /\ h[r].pc \in {"loaded", "counted"}
        /\ h[r].uri = h[d].uri

\* the server after did:plc:alice completed the OAuth callback
MirrorInit ==
    /\ kv = [t \in Tables |-> IF t = "auth_session"
                               THEN AtomicUpsert({}, "did:plc:alice", "session") ELSE {}]
    /\ kcall = [c \in Callers |-> NoCall]
    /\ kpc = [c \in Callers |-> "idle"]
    /\ kcount = [c \in Callers |-> 0]
    /\ kres = [c \in Callers |-> "none"]
    /\ StoreIdle /\ HandlersIdle

\* create and update requests for the posts of did:plc:alice handled
\* concurrently, every remote call (restore, put_record) succeeding
MirrorNext ==
    \E r \in Requests :
        \/ CreateBlogPost(r, "did:plc:alice")
        \/ \E uri \in TargetUris, title \in {None, Some("T2")} :
              UpdateBlogPostLoad(r, "did:plc:alice", uri, title, None)
        \/ \E uri \in TargetUris : BlogEditFormLoad(r, "anon", uri, "T3", "C3")
        \/ HandlerSaveOrUpdateCount(r)
        \/ HandlerSaveOrUpdateWrite(r)
        \/ UpdateBlogPostRestore(r, "ok")
        \/ BlogEditFormRestore(r, "ok")
        \/ PutRecordValidated(r, "ok")
        \/ Respond(r)

SpecMirror == MirrorInit /\ [][MirrorNext]_vars

\* another update request for the uri of frame f is between its arrival and
\* its return
OtherUpdateInFlight(r) ==
    \E o \in Requests \ {r} :
        /\ h[o].kind \in UpdateKinds
        /\ h[o].uri = h[r].uri
        /\ h[o].pc # "done"

\* C37: with every remote call succeeding, when the put_record of an update
\* request succeeds while no other update request for the uri is in flight,
\* the record it sent (from then on the remote copy) has the title and
\* content of the stored row of the uri.
C37_RemoteMatchesLocal ==
    [][\A r \in Requests :
          (/\ h[r].kind \in UpdateKinds
           /\ h[r].pc = "put1"
           /\ h'[r].pc = "done"
           /\ ~OtherUpdateInFlight(r)
           /\ PostRowsOf(blog_posts', h[r].uri) # {}) =>
              \A row \in PostRowsOf(blog_posts', h[r].uri) :
                  /\ row.title = h[r].data[1].title
                  /\ row.content = h[r].data[1].content]_vars

\* two update requests for one uri have both sent their put_record and
\* returned
C37_Witness ==
    /\ \A r \in {1, 2} :
          /\ h[r].kind \in UpdateKinds
          /\ h[r].pc = "done"
          /\ h[r].calls # <<>>
    /\ h[1].uri = h[2].uri
    /\ PostRowsOf(blog_posts, h[1].uri) # {}

-----------------------------------------------------------------------------
(* Two create requests of one identity *)

\* C38: a create request never fails on the primary key of blog_posts: no
\* create handler ends with the error of a save whose uri was already stored
\* (two creates of one identity get two uris and two rows).
C38_CreatesNeverConflict ==
    \A r \in Requests :
        h[r].kind \in {"create_api", "create_form"} => h[r].saved # "err"

C38_Witness ==
    \E r \in Requests :
        /\ h[r].kind \in {"create_api", "create_form"}
        /\ h[r].saved = "ok"
        /\ \E a, b \in blog_posts :
              /\ a.uri # b.uri
              /\ a.authorDid = b.authorDid
              /\ b.uri = h[r].uri

-----------------------------------------------------------------------------
(* The optional summary through the store *)

\* C39: after a successful save or save_or_update of a post, the row of its
\* uri reads back through map_from_row with the summary the post was written
\* with: absent when it was absent, the same text when it was present.
C39_SummaryRoundTrip ==
    (scall[1].op \in {"save", "save_or_update"} /\ sres[1] = "ok") =>
        LET back == LoadByUri(blog_posts, scall[1].arg.uri)
        IN back # None /\ back[1].summary = scall[1].arg.summary

\* a post with an absent summary was written and its row is in the store
C39_Witness ==
    /\ scall[1].op \in {"save", "save_or_update"}
    /\ sres[1] = "ok"
    /\ scall[1].arg.summary = None
    /\ LoadByUri(blog_posts, scall[1].arg.uri) # None

-----------------------------------------------------------------------------
(* BlogPostRecord::add_tag of lexicon.rs *)

\* Vec::contains
VecContains(v, x) == \E i \in 1..Len(v) : v[i] = x

\* BlogPostRecord::add_tag: the tags after the call and its result
AddTag(tags, tag) ==
    IF Len(tag) > MaxTagLen
    THEN [tags |-> tags, res |-> "Tag cannot be longer than 50 characters"]
    ELSE IF Len(tags) >= MaxTags
    THEN [tags |-> tags, res |-> "Cannot have more than 10 tags"]
    ELSE IF ~VecContains(tags, tag)
    THEN [tags |-> Append(tags, tag), res |-> "ok"]
    ELSE [tags |-> tags, res |-> "ok"]

\* the tags callers pass: one more short tag than a record may hold, and a
\* tag that is too long
NumPoolTags == MaxTags + 1

PoolTag(i) == "t" \o ToString(i)

\* position of a tag in the pool, 0 for LongTag
PoolIndex(tag) == IF tag = LongTag THEN 0 ELSE CHOOSE i \in 1..NumPoolTags : PoolTag(i) = tag

\* BlogPostRecord::new: no tags; no add_tag call made yet
AddTagInit ==
    /\ KvIdle /\ HandlersIdle
    /\ blog_posts = {}
    /\ scall = [c \in Callers |-> NoCall]
    /\ spc = [c \in Callers |-> "idle"]
    /\ scount = [c \in Callers |-> 0]
    /\ sres = [c \in Callers |-> IF c = 1 THEN <<>> ELSE "none"]

\* one add_tag call on the record; scall[1] keeps the call and the tags
\* before it, sres[1] the tags of the record, sres[2] the result
CallAddTag(tag) ==
    LET out == AddTag(sres[1], tag)
    IN /\ scall' = [scall EXCEPT ![1] = [op |-> "add_tag", arg |-> tag, before |-> sres[1]]]
       /\ spc' = [spc EXCEPT ![1] = "called"]
       /\ sres' = [sres EXCEPT ![1] = out.tags, ![2] = out.res]
       /\ UNCHANGED <<kvVars, blog_posts, scount, handlerVars>>

\* callers add new tags in the order of the pool (the order of the new tags
\* plays no part in add_tag), repeat any tag, or pass the long tag
AddTagNext ==
    \/ \E i \in 1..NumPoolTags :
          /\ \A j \in 1..Len(sres[1]) : PoolIndex(sres[1][j]) < i
          /\ CallAddTag(PoolTag(i))
    \/ \E j \in 1..Len(sres[1]) : CallAddTag(sres[1][j])
    \/ CallAddTag(LongTag)

SpecAddTag == AddTagInit /\ [][AddTagNext]_vars

\* C40: an add_tag call with a tag already in the list returns Ok and leaves
\* the list unchanged, whatever the length of the list; and the list never
\* holds a tag twice, more than 10 tags or a tag longer than 50 characters.
C40_AddTagIdempotent ==
    /\ (spc[1] = "called" /\ VecContains(scall[1].before, scall[1].arg)) =>
           (sres[2] = "ok" /\ sres[1] = scall[1].before)
    /\ \A i, j \in 1..Len(sres[1]) : i # j => sres[1][i] # sres[1][j]
    /\ Len(sres[1]) <= MaxTags
    /\ \A i \in 1..Len(sres[1]) : Len(sres[1][i]) <= MaxTagLen

\* a tag of a list of 10 tags was added again
C40_Witness ==
    /\ spc[1] = "called"
    /\ Len(scall[1].before) = MaxTags
    /\ VecContains(scall[1].before, scall[1].arg)


=============================================================================
